---- MODULE Spec2Model ----
(***************************************************************************)
(* Model of import_to_mealie.py: the entity caches and their resolvers     *)
(* (the load_existing and ensure functions), the per-document pipeline     *)
(* (process_recipe_file), the batch runner in sequential and pooled mode   *)
(* (process_recipe_files) and the retry loop of main().                    *)
(*                                                                         *)
(* Strings are sequences of one-character strings, so that strip, lower    *)
(* and slugify are computed and not assumed.  Python's None and the empty  *)
(* string are both the empty sequence: the code only tests them for truth. *)
(***************************************************************************)
EXTENDS Integers, Sequences, FiniteSets, TLC

\* ------------------------------------------------------------------ bounds
\* Largest --workers value tried (threads of the pool).
MaxWorkers == 2
\* Number of remote requests of one run that may go wrong (error status,
\* rejected create, lost response).
MaxFaults == 2
\* Page size of the list requests, scaled down from 100 so that a collection
\* of two entities already fills a page.
PerPage == 2
\* Longest ordered_items the ingredient builder is run on.
MaxItems == 3

\* Longest portion_skus the ingredient builder is run on.
MaxSkus == 3

\* ------------------------------------------------------- program constants
\* for attempt in range(1, 11)
MaxRetries == 10

\* ----------------------------------------------------------------- strings
None == <<>>

Range(s) == {s[i] : i \in DOMAIN s}

\* The one element of a set of one element.
Only(S) == CHOOSE r \in S : TRUE

Letters ==
    {"a", "b", "c", "d", "e", "g", "l", "m", "n", "o", "p", "r",
     "A", "B", "O", "P"}

lower(c) ==
    CASE c = "A" -> "a"
      [] c = "B" -> "b"
      [] c = "C" -> "c"
      [] c = "D" -> "d"
      [] c = "E" -> "e"
      [] c = "F" -> "f"
      [] c = "G" -> "g"
      [] c = "H" -> "h"
      [] c = "I" -> "i"
      [] c = "J" -> "j"
      [] c = "K" -> "k"
      [] c = "L" -> "l"
      [] c = "M" -> "m"
      [] c = "N" -> "n"
      [] c = "O" -> "o"
      [] c = "P" -> "p"
      [] c = "Q" -> "q"
      [] c = "R" -> "r"
      [] c = "S" -> "s"
      [] c = "T" -> "t"
      [] c = "U" -> "u"
      [] c = "V" -> "v"
      [] c = "W" -> "w"
      [] c = "X" -> "x"
      [] c = "Y" -> "y"
      [] c = "Z" -> "z"
      [] OTHER -> c

lower_str(s) == [i \in 1..Len(s) |-> lower(s[i])]

RECURSIVE lstrip(_)
lstrip(s) == IF s # <<>> /\ Head(s) = " " THEN lstrip(Tail(s)) ELSE s

RECURSIVE rstrip(_)
rstrip(s) ==
    IF s # <<>> /\ s[Len(s)] = " " THEN rstrip(SubSeq(s, 1, Len(s) - 1)) ELSE s

strip(s) == Only({rstrip(left) : left \in {lstrip(s)}})

\* _category_key: None for a falsy name, else name.strip().lower()
category_key(name) ==
    Only({IF text = None THEN None ELSE lower_str(strip(text)) :
          text \in {name}})

food_key(name) == category_key(name)

unit_key(name) == category_key(name)

tag_key(name) == category_key(name)

\* slugify(): lower-case, every run of non-alphanumerics becomes one "-",
\* no "-" at either end.
RECURSIVE slug_chars(_, _)
slug_chars(s, pending) ==
    IF s = <<>> THEN <<>>
    ELSE IF Head(s) \in Letters
         THEN (IF pending THEN <<"-">> ELSE <<>>) \o <<lower(Head(s))>>
              \o slug_chars(Tail(s), FALSE)
         ELSE slug_chars(Tail(s), TRUE)

RECURSIVE drop_nonletters(_)
drop_nonletters(s) ==
    IF s # <<>> /\ Head(s) \notin Letters THEN drop_nonletters(Tail(s)) ELSE s

slugify(s) ==
    Only({slug_chars(text, FALSE) : text \in {drop_nonletters(s)}})

\* str(value).strip().lower()
code_key(value) == lower_str(strip(value))

\* The warning of a SKU without ingredient, and the one of a unit not found.
SkuWarning(code) == [about |-> "sku", text |-> code]

UnitWarning(label) == [about |-> "unit", text |-> label]

\* ---------------------------------------------------------------- entities
Kinds == {"categories", "units", "foods", "tags"}

Entity(id, name, slug) ==
    [id |-> id, name |-> name, title |-> None, slug |-> slug,
     pluralName |-> None, abbreviation |-> None, pluralAbbreviation |-> None]

UnitEntity(id, name, plural, abbr, pabbr) ==
    [id |-> id, name |-> name, title |-> None, slug |-> None,
     pluralName |-> plural, abbreviation |-> abbr, pluralAbbreviation |-> pabbr]

\* What dict.get() gives for a missing key; falsy.
Absent == Entity(0, None, None)

category_name(cat) == IF cat.name # None THEN cat.name ELSE cat.title

\* The keys under which an entity of a kind is cached, in the order the
\* code writes them.
entity_keys(kind, e) ==
    CASE kind = "categories" ->
            <<category_key(category_name(e)), category_key(e.slug)>>
      [] kind = "foods" -> <<food_key(e.name), food_key(e.slug)>>
      [] kind = "units" ->
            <<unit_key(e.name), unit_key(e.pluralName),
              unit_key(e.abbreviation), unit_key(e.pluralAbbreviation)>>
      [] kind = "tags" -> <<tag_key(e.name), tag_key(e.slug)>>

\* ------------------------------------------------------------------- dicts
EmptyDict == [k \in {} |-> Absent]

dict_get(d, k) == IF k \in DOMAIN d THEN d[k] ELSE Absent

dict_put(d, k, v) == [x \in (DOMAIN d) \cup {k} |-> IF x = k THEN v ELSE d[x]]

\* for key in keys: if key: d[key] = e
RECURSIVE put_keys(_, _, _)
put_keys(d, keys, e) ==
    IF keys = <<>> THEN d
    ELSE put_keys(IF Head(keys) # None THEN dict_put(d, Head(keys), e) ELSE d,
                  Tail(keys), e)

\* dict.update(other)
dict_update(d, other) ==
    [x \in (DOMAIN d) \cup (DOMAIN other) |->
        IF x \in DOMAIN other THEN other[x] ELSE d[x]]

\* The body of the page loop of load_existing_*: entities whose id was seen
\* are skipped, the others are entered under each of their keys.
RECURSIVE add_page(_, _, _, _)
add_page(kind, acc, seen, items) ==
    IF items = <<>> THEN [acc |-> acc, seen |-> seen]
    ELSE LET e == Head(items)
         IN IF e.id # 0 /\ e.id \in seen
            THEN add_page(kind, acc, seen, Tail(items))
            ELSE add_page(kind, put_keys(acc, entity_keys(kind, e), e),
                          IF e.id # 0 THEN seen \cup {e.id} ELSE seen,
                          Tail(items))

Min(a, b) == IF a < b THEN a ELSE b

\* The items the remote returns for ?page=p&perPage=PerPage.
page_items(list, p) ==
    SubSeq(list, (p - 1) * PerPage + 1, Min(p * PerPage, Len(list)))

\* --------------------------------------------------------------- documents
\* A source file: readable ("ok"), not readable or not JSON ("unreadable"),
\* or JSON of another shape than an object holding data.entry ("badshape").
\* image: "none", "file" (downloaded to images_dir) or "nofile".
\* assets: instruction images, each "file" or "nofile".
\* unmatched: the codes of the SKUs of the portion size that match no
\* ingredient; items are then the ingredients of the other SKUs.
SourceFile(state, title, cats, items, allergens, image, assets) ==
    [state |-> state, title |-> title, cats |-> cats, items |-> items,
     allergens |-> allergens, image |-> image, assets |-> assets,
     unmatched |-> <<>>]

Plain(title) == SourceFile("ok", title, <<>>, <<>>, <<>>, "none", <<>>)

WithFoods(title, items) ==
    SourceFile("ok", title, <<>>, items, <<>>, "none", <<>>)

WithSkus(title, items, unmatched) ==
    [WithFoods(title, items) EXCEPT !.unmatched = unmatched]

Unreadable == SourceFile("unreadable", None, <<>>, <<>>, <<>>, "none", <<>>)

BadShape == SourceFile("badshape", None, <<>>, <<>>, <<>>, "none", <<>>)

\* The output directories the run is tried on: each is the sorted list of
\* its recipe files.
Batches ==
    << \* foods shared between documents, one food named twice
       <<WithFoods(<<"a">>, << <<"o">>, <<"o">> >>),
         WithFoods(<<"b">>, << <<"m">> >>),
         WithFoods(<<"c">>, << <<"O", " ">>, <<"p">> >>)>>,
       \* five documents, the third unreadable
       <<Plain(<<"a">>), Plain(<<"b">>), Unreadable, Plain(<<"c">>),
         Plain(<<"d">>)>>,
       \* a title that slugifies to nothing, and a file of the wrong shape
       <<Plain(<<"a">>), Plain(<<":">>), BadShape, Plain(<<"b">>)>>,
       \* categories (one known, one new, one repeated), an allergen, a hero
       \* image and an instruction image
       <<SourceFile("ok", <<"a">>, << <<"A", " ", "b">>, <<"d">>, <<"D">> >>,
                    << <<"P">> >>, << <<"m">> >>, "file", <<"file">>)>>,
       \* missing image files
       <<SourceFile("ok", <<"a">>, <<>>, <<>>, <<>>, "nofile", <<>>),
         SourceFile("ok", <<"b">>, <<>>, <<>>, <<>>, "none", <<"nofile">>)>>,
       \* SKUs without ingredient
       <<WithSkus(<<"a">>, << <<"o">> >>, << <<"I", "-", "9">> >>),
         WithSkus(<<"b">>, <<>>, << <<" ", "i", "-", "8">> >>)>>
    >>

\* gather_category_titles: titles with a non-empty key, first of each key.
RECURSIVE unique_titles(_, _)
unique_titles(titles, seen_category_keys) ==
    IF titles = <<>> THEN <<>>
    ELSE LET key == category_key(Head(titles))
         IN IF key = None \/ key \in seen_category_keys
            THEN unique_titles(Tail(titles), seen_category_keys)
            ELSE <<Head(titles)>>
                 \o unique_titles(Tail(titles), seen_category_keys \cup {key})

gather_category_titles(entry) == unique_titles(entry.cats, {})

AllergenPrefix == <<"a", "l", "l", "e", "r", "g", "e", "n", ":">>

RECURSIVE unique_names(_, _)
unique_names(names, seen) ==
    IF names = <<>> THEN <<>>
    ELSE IF Head(names) \in seen
         THEN unique_names(Tail(names), seen)
         ELSE <<Head(names)>> \o unique_names(Tail(names), seen \cup {Head(names)})

RECURSIVE allergen_names(_)
allergen_names(titles) ==
    IF titles = <<>> THEN <<>>
    ELSE IF Head(titles) = None
         THEN allergen_names(Tail(titles))
         ELSE <<AllergenPrefix \o slugify(strip(Head(titles)))>>
              \o allergen_names(Tail(titles))

gather_allergen_tags(entry) == unique_names(allergen_names(entry.allergens), {})

\* The food names build_recipe_ingredients resolves, in order: items without
\* a name are skipped.
RECURSIVE named_items(_)
named_items(items) ==
    IF items = <<>> THEN <<>>
    ELSE IF Head(items) = None
         THEN named_items(Tail(items))
         ELSE <<Head(items)>> \o named_items(Tail(items))

\* ----------------------------------------------------------------- numbers
\* A quantity is a fraction in lowest terms, n/d with d > 0; None is NoQty.
\* The labels of the model only hold values a float represents exactly.
NoQty == [n |-> 0, d |-> 0]

RECURSIVE gcd(_, _)
gcd(a, b) == IF b = 0 THEN a ELSE gcd(b, a % b)

Abs(n) == IF n < 0 THEN 0 - n ELSE n

\* n/d in lowest terms, for d > 0.
Rat(n, d) ==
    LET g == gcd(Abs(n), d)
    IN [n |-> IF n < 0 THEN 0 - (Abs(n) \div g) ELSE n \div g, d |-> d \div g]

RatOfInt(k) == [n |-> k, d |-> 1]

RatMul(a, b) == Rat(a.n * b.n, a.d * b.d)

RatAdd(a, b) == Rat(a.n * b.d + b.n * a.d, a.d * b.d)

RatLess(a, b) == a.n * b.d < b.n * a.d

\* float(num) / float(denom); a zero denominator raises ZeroDivisionError,
\* which the caller turns into None.
RatDiv(a, b) ==
    IF b.n = 0 THEN NoQty
    ELSE IF b.n < 0 THEN Rat(0 - (a.n * b.d), a.d * Abs(b.n))
    ELSE Rat(a.n * b.d, a.d * b.n)

Digits == {"0", "1", "2", "3", "4", "5", "6", "7", "8", "9"}

\* [a-zA-Z]
Alpha ==
    {"a", "b", "c", "d", "e", "f", "g", "h", "i", "j", "k", "l", "m",
     "n", "o", "p", "q", "r", "s", "t", "u", "v", "w", "x", "y", "z",
     "A", "B", "C", "D", "E", "F", "G", "H", "I", "J", "K", "L", "M",
     "N", "O", "P", "Q", "R", "S", "T", "U", "V", "W", "X", "Y", "Z"}

\* [x] under re.IGNORECASE (the multiplication sign does not occur in Labels)
XChars == {"x", "X"}

\* \s (of the white space characters only the blank occurs in Labels)
Blank == {" "}

digit_value(c) ==
    CASE c = "0" -> 0 [] c = "1" -> 1 [] c = "2" -> 2 [] c = "3" -> 3
      [] c = "4" -> 4 [] c = "5" -> 5 [] c = "6" -> 6 [] c = "7" -> 7
      [] c = "8" -> 8 [] c = "9" -> 9

RECURSIVE digits_value(_)
digits_value(s) ==
    IF s = <<>> THEN 0
    ELSE 10 * digits_value(SubSeq(s, 1, Len(s) - 1)) + digit_value(s[Len(s)])

RECURSIVE Pow10(_)
Pow10(k) == IF k = 0 THEN 1 ELSE 10 * Pow10(k - 1)

\* The index after the longest run of characters of class that starts at i.
RECURSIVE run_end(_, _, _)
run_end(s, i, class) ==
    IF i <= Len(s) /\ s[i] \in class THEN run_end(s, i + 1, class) ELSE i

\* \d+(?:\.\d+)? matched at i: the index after the match, i when none.
number_end(s, i) ==
    LET e == run_end(s, i, Digits)
    IN IF e = i THEN i
       ELSE IF e < Len(s) /\ s[e] = "." /\ s[e + 1] \in Digits
            THEN run_end(s, e + 1, Digits)
            ELSE e

\* float() of the text s[i..e-1] that \d+(?:\.\d+)? matched.
number_value(s, i, e) ==
    LET d == run_end(s, i, Digits)
        whole == SubSeq(s, i, d - 1)
        frac == SubSeq(s, d + 1, e - 1)
    IN Rat(digits_value(whole) * Pow10(Len(frac)) + digits_value(frac),
           Pow10(Len(frac)))

\* float(tok): an optional sign and a decimal number; anything else raises
\* ValueError (NoQty).  Exponents, inf, nan and underscores, which float()
\* accepts as well, do not occur in Labels.
to_float(tok) ==
    LET signed == tok # <<>> /\ tok[1] \in {"-", "+"}
        body == IF signed THEN Tail(tok) ELSE tok
        d == run_end(body, 1, Digits)
        dotted == d <= Len(body) /\ body[d] = "."
        e == IF dotted THEN run_end(body, d + 1, Digits) ELSE d
        whole == SubSeq(body, 1, d - 1)
        frac == IF dotted THEN SubSeq(body, d + 1, e - 1) ELSE <<>>
        v == Rat(digits_value(whole) * Pow10(Len(frac)) + digits_value(frac),
                 Pow10(Len(frac)))
    IN IF e # Len(body) + 1 \/ (whole = <<>> /\ frac = <<>>) THEN NoQty
       ELSE IF signed /\ tok[1] = "-" THEN [v EXCEPT !.n = 0 - v.n]
       ELSE v

\* sub in s
RECURSIVE has_sub(_, _)
has_sub(s, sub) ==
    IF Len(s) < Len(sub) THEN FALSE
    ELSE IF SubSeq(s, 1, Len(sub)) = sub THEN TRUE
    ELSE has_sub(Tail(s), sub)

\* str.split(): the maximal runs of non-blank characters.
RECURSIVE split(_)
split(s) ==
    LET b == run_end(s, 1, Blank)
        rest == SubSeq(s, b, Len(s))
        e == run_end(rest, 1, Range(rest) \ Blank)
    IN IF rest = <<>> THEN <<>>
       ELSE <<SubSeq(rest, 1, e - 1)>> \o split(SubSeq(rest, e, Len(rest)))

\* tok.rstrip(",")
RECURSIVE rstrip_comma(_)
rstrip_comma(tok) ==
    IF tok # <<>> /\ tok[Len(tok)] = ","
    THEN rstrip_comma(SubSeq(tok, 1, Len(tok) - 1))
    ELSE tok

\* ------------------------------------------------ parse_quantity_and_unit
\* The least index of a set of indices, 0 for the empty set: where
\* re.search finds its match.
first_index(S) == IF S = {} THEN 0 ELSE CHOOSE i \in S : \A j \in S : i <= j

\* _extract_multiplier: re.search(r"[x]\s*(\d+(?:\.\d+)?)\s*$", label)
extract_multiplier(label) ==
    LET ok(i) == /\ label[i] \in XChars
                 /\ LET j == run_end(label, i + 1, Blank)
                        e == number_end(label, j)
                    IN e > j /\ run_end(label, e, Blank) = Len(label) + 1
        i == first_index({k \in DOMAIN label : ok(k)})
        j == run_end(label, i + 1, Blank)
    IN IF i = 0 THEN NoQty ELSE number_value(label, j, number_end(label, j))

\* re.search(r"(count)\s*[x]\s*(num)(unit)", label): count, then x, then a
\* number that letters follow.
multi_match(label) ==
    LET parts(i) ==
            LET e1 == number_end(label, i)
                x == run_end(label, e1, Blank)
                k == run_end(label, x + 1, Blank)
                e2 == number_end(label, k)
                u == run_end(label, e2, Alpha)
            IN [ok |-> /\ e1 > i
                       /\ x <= Len(label) /\ label[x] \in XChars
                       /\ e2 > k
                       /\ u > e2,
                count |-> number_value(label, i, e1),
                unit |-> SubSeq(label, e2, u - 1)]
        i == first_index({k \in DOMAIN label : parts(k).ok})
    IN IF i = 0 THEN [found |-> FALSE, count |-> NoQty, unit |-> None]
       ELSE [found |-> TRUE, count |-> parts(i).count, unit |-> parts(i).unit]

\* re.search(r"\((num)\s*(unit)\)", label)
paren_match(label) ==
    LET parts(i) ==
            LET e == number_end(label, i + 1)
                j == run_end(label, e, Blank)
                u == run_end(label, j, Alpha)
            IN [ok |-> /\ label[i] = "("
                       /\ e > i + 1
                       /\ u > j
                       /\ u <= Len(label) /\ label[u] = ")",
                num |-> number_value(label, i + 1, e),
                unit |-> SubSeq(label, j, u - 1)]
        i == first_index({k \in DOMAIN label : parts(k).ok})
    IN IF i = 0 THEN [found |-> FALSE, num |-> NoQty, unit |-> None]
       ELSE [found |-> TRUE, num |-> parts(i).num, unit |-> parts(i).unit]

\* re.search(r"(num)\s*(unit)", label): the first number that letters follow.
number_unit_match(label) ==
    LET parts(i) ==
            LET e == number_end(label, i)
                j == run_end(label, e, Blank)
                u == run_end(label, j, Alpha)
            IN [ok |-> e > i /\ u > j,
                num |-> number_value(label, i, e),
                unit |-> SubSeq(label, j, u - 1)]
        i == first_index({k \in DOMAIN label : parts(k).ok})
    IN IF i = 0 THEN [found |-> FALSE, num |-> NoQty, unit |-> None]
       ELSE [found |-> TRUE, num |-> parts(i).num, unit |-> parts(i).unit]

\* unit_aliases.get(tok): the alias of a unit token, None when it has none.
unit_alias(tok) ==
    CASE tok \in {<<"g">>, <<"g", "r", "a", "m">>, <<"g", "r", "a", "m", "s">>} ->
            <<"g", "r", "a", "m">>
      [] tok \in {<<"k", "g">>, <<"k", "i", "l", "o", "g", "r", "a", "m">>, <<"k", "i", "l", "o", "g", "r", "a", "m", "s">>} ->
            <<"k", "i", "l", "o", "g", "r", "a", "m">>
      [] tok \in {<<"m", "l">>, <<"m", "i", "l", "l", "i", "l", "i", "t", "e", "r">>, <<"m", "i", "l", "l", "i", "l", "i", "t", "e", "r", "s">>} ->
            <<"m", "i", "l", "l", "i", "l", "i", "t", "e", "r">>
      [] tok \in {<<"l">>, <<"l", "i", "t", "e", "r">>, <<"l", "i", "t", "r", "e">>, <<"l", "i", "t", "e", "r", "s">>, <<"l", "i", "t", "r", "e", "s">>} ->
            <<"l", "i", "t", "e", "r">>
      [] tok \in {<<"t", "s", "p">>, <<"t", "e", "a", "s", "p", "o", "o", "n">>, <<"t", "e", "a", "s", "p", "o", "o", "n", "s">>} ->
            <<"t", "e", "a", "s", "p", "o", "o", "n">>
      [] tok \in {<<"t", "b", "s", "p">>, <<"t", "a", "b", "l", "e", "s", "p", "o", "o", "n">>, <<"t", "a", "b", "l", "e", "s", "p", "o", "o", "n", "s">>} ->
            <<"t", "a", "b", "l", "e", "s", "p", "o", "o", "n">>
      [] tok \in {<<"c", "l", "o", "v", "e">>, <<"c", "l", "o", "v", "e", "s">>} ->
            <<"c", "l", "o", "v", "e">>
      [] tok \in {<<"p", "i", "n", "c", "h">>, <<"p", "i", "n", "c", "h", "e", "s">>} ->
            <<"p", "i", "n", "c", "h">>
      [] tok \in {<<"c", "u", "p">>, <<"c", "u", "p", "s">>} ->
            <<"c", "u", "p">>
      [] tok \in {<<"p", "a", "c", "k">>, <<"p", "a", "c", "k", "e", "t">>, <<"p", "a", "c", "k", "e", "t", "s">>} ->
            <<"p", "a", "c", "k">>
      [] tok \in {<<"t", "i", "n">>, <<"t", "i", "n", "s">>} ->
            <<"t", "i", "n">>
      [] tok \in {<<"c", "a", "n">>, <<"c", "a", "n", "s">>} ->
            <<"c", "a", "n">>
      [] tok \in {<<"c", "m">>} ->
            <<"c", "e", "n", "t", "i", "m", "e", "t", "e", "r">>
      [] tok \in {<<"s", "l", "i", "c", "e">>, <<"s", "l", "i", "c", "e", "s">>} ->
            <<"s", "l", "i", "c", "e">>
      [] tok \in {<<"p", "i", "e", "c", "e">>, <<"p", "i", "e", "c", "e", "s">>} ->
            <<"p", "i", "e", "c", "e">>
      [] tok \in {<<"b", "u", "n", "c", "h">>, <<"b", "u", "n", "c", "h", "e", "s">>} ->
            <<"b", "u", "n", "c", "h">>
      [] OTHER -> None

\* ------------------------------------------------------------------- state
VARIABLES
    batch,          \* which output directory the run works on
    workers,        \* resolve_workers(): the --workers value
    mpc,            \* where main() is
    pk,             \* which cache main() is preloading (index in PreloadOrder)
    attempt,        \* 0 in the first pass, then the retry attempt 1..10
    paths,          \* the paths argument of the process_recipe_files call
    failed_paths,   \* main(): failed_paths
    errors,         \* the module's errors list
    errors_local,   \* process_recipe_files: errors_local
    failed,         \* process_recipe_files: failed
    fut,            \* pooled mode: the future of each submitted document
    results,        \* pooled mode: results, in the order of completion, which is
                    \* the order as_completed gives the futures in
    th,             \* per thread (0 is the main thread): position and locals
    cache,          \* CATEGORIES_BY_KEY, UNITS_BY_KEY, FOODS_BY_KEY, TAGS_BY_KEY
    lock,           \* owner of CACHE_LOCK, or NoThread
    remote,         \* the remote catalog: per kind the list of its entities
    recipes,        \* the remote recipes, by slug
    faults,         \* remote requests that went wrong so far
    attempts,       \* history: per document, the attempts started on it
    lastResult,     \* history: per document, how its latest attempt ended
    returned,       \* history: per food key, the entity ensure_food returned
    posted,         \* history: the kinds and keys a create was requested for
    held,           \* history: per kind, the keys the cache has held
    warnings_lock,  \* WARNINGS_LOCK: the thread that holds it, or NoThread
    thread_local,   \* pooled mode: thread_local.session of each pool thread
    warnings,       \* the module's warnings list
    all_items,      \* build_recipe_ingredients: all_items
    portion_skus,   \* build_recipe_ingredients: portion_skus
    sku_idx,        \* build_recipe_ingredients: SKUs of the loop done so far
    ordered_items,  \* build_recipe_ingredients: ordered_items
    item_idx,       \* build_recipe_ingredients: items of the loop done so far
    recipe_ingredients, \* build_recipe_ingredients: recipe_ingredients
    iter,           \* history: the locals of the latest loop iteration
    unit_a,         \* _units_compatible: unit_a
    unit_b,         \* _units_compatible: unit_b
    compatible      \* _units_compatible: the value returned, "none" before

vars ==
    <<batch, workers, mpc, pk, attempt, paths, failed_paths, errors,
      errors_local, failed, fut, results, th, cache, lock, remote, recipes,
      faults, attempts, lastResult, returned, posted, held, thread_local,
      warnings_lock, warnings, all_items, portion_skus, sku_idx, ordered_items, item_idx,
      recipe_ingredients, iter, unit_a, unit_b, compatible>>

\* The state of the ingredient builder and of the unit comparison.
build_vars ==
    <<warnings, all_items, portion_skus, sku_idx, ordered_items, item_idx,
      recipe_ingredients, iter, unit_a, unit_b, compatible>>

Threads == 0..MaxWorkers

NoThread == 0 - 1

PreloadOrder == <<"categories", "units", "foods", "tags">>

recipe_files == Batches[batch]

entry(d) == recipe_files[d]

NoErr == [path |-> 0, stage |-> "", text |-> "", n |-> 0]

Err(d, stage, text) ==
    [path |-> d, stage |-> stage, text |-> text, n |-> attempts[d]]

\* A recipe of the remote: whether it has an image, how many instruction
\* assets, and its recipeCategory and recipeIngredient lists (each entity
\* named by its key).
Recipe(image, assets, categories, ingredients) ==
    [found |-> TRUE, image |-> image, assets |-> assets,
     recipeCategory |-> categories, recipeIngredient |-> ingredients]

NoRecipe ==
    [found |-> FALSE, image |-> FALSE, assets |-> 0, recipeCategory |-> <<>>,
     recipeIngredient |-> <<>>]

\* Sessions: none, the one main() builds for itself, and the ones the
\* session factory builds. Each call of the factory gives a new object; it
\* is named by the pass and the pool thread that called it.
NoSession == 0

CallerSession == 1

factory_session(att, t) == 2 + att * MaxWorkers + (t - 1)

IdleThread ==
    [pc |-> "idle", idx |-> 0, path |-> 0, stage |-> "", kind |-> "", i |-> 0,
     resp |-> 0, ent |-> Absent, page |-> 0, acc |-> EmptyDict, seen |-> {},
     recipe |-> NoRecipe, created_new |-> FALSE, touched |-> FALSE,
     session |-> NoSession]

\* The locals of a loop iteration of build_recipe_ingredients, none run yet.
NoIter ==
    [label |-> None, name |-> None, key |-> None, parsed_qty |-> NoQty, unit |-> Absent,
     raw_label_multiplier |-> NoQty, sku_qty |-> NoQty, quantity |-> NoQty,
     merged |-> FALSE, into |-> 0]

\* The recipes the run finds: those of the slugs "c" and "d", each with a
\* category and an ingredient.
RecipesInit ==
    [slug \in {<<"c">>, <<"d">>} |->
        Recipe(FALSE, 0, << <<"c">> >>, << <<"p">> >>)]

\* The catalog as the run finds it.
RemoteInit ==
    [categories |-> <<Entity(1, <<"A", " ", "b">>, <<"a", "-", "b">>),
                      Entity(2, <<"c">>, <<"c">>)>>,
     units |-> <<UnitEntity(3, <<"g", "r", "a", "m">>, <<"g", "r", "a", "m", "s">>,
                            <<"g">>, None)>>,
     foods |-> <<Entity(4, <<"P">>, None)>>,
     tags |-> <<>>]

\* The state after construction, for the given numbers of workers and the
\* given numbers of requests that went wrong before.
InitWith(pools, wrong) ==
    /\ batch \in DOMAIN Batches
    /\ workers \in pools
    /\ mpc = "preload"
    /\ pk = 1
    /\ attempt = 0
    /\ paths = <<>>
    /\ failed_paths = <<>>
    /\ errors = <<>>
    /\ errors_local = <<>>
    /\ failed = <<>>
    /\ fut = <<>>
    /\ results = <<>>
    /\ th = [t \in Threads |->
                IF t = 0
                THEN [IdleThread EXCEPT !.pc = "load_fetch", !.kind = PreloadOrder[1],
                                        !.page = 1]
                ELSE IdleThread]
    /\ cache = [k \in Kinds |-> EmptyDict]
    /\ lock = NoThread
    /\ remote = RemoteInit
    /\ recipes = RecipesInit
    /\ faults \in wrong
    /\ attempts = [d \in DOMAIN recipe_files |-> 0]
    /\ lastResult = [d \in DOMAIN recipe_files |-> "none"]
    /\ returned = EmptyDict
    /\ posted = {}
    /\ held = [k \in Kinds |-> {}]
    /\ warnings_lock = NoThread
    /\ thread_local = [t \in 1..MaxWorkers |-> NoSession]
    /\ warnings = <<>>
    /\ all_items = <<>>
    /\ portion_skus = <<>>
    /\ sku_idx = 0
    /\ ordered_items = <<>>
    /\ item_idx = 0
    /\ recipe_ingredients = <<>>
    /\ iter = NoIter
    /\ unit_a = Absent
    /\ unit_b = Absent
    /\ compatible = "none"

Init == InitWith(1..MaxWorkers, {0})

\* ----------------------------------------------------------------- helpers
\* The names a document resolves for a kind, in the order they are resolved.
entry_names(e, kind) ==
    CASE kind = "categories" -> gather_category_titles(e)
      [] kind = "foods" -> named_items(e.items)
      [] kind = "tags" -> gather_allergen_tags(e)

doc_names(d, kind) == entry_names(entry(d), kind)

StageOf(kind) ==
    CASE kind = "categories" -> "resolve categories"
      [] kind = "foods" -> "resolve ingredients"
      [] kind = "tags" -> "resolve tags"

KindsAfter(kind) ==
    CASE kind = "categories" -> <<"foods", "tags">>
      [] kind = "foods" -> <<"tags">>
      [] kind = "tags" -> <<>>

\* process_recipe_file from the first of the given resolve stages that has
\* something to resolve; with none left, the fetch of the recipe.
RECURSIVE next_resolve(_, _, _)
next_resolve(r, d, ks) ==
    IF ks = <<>>
    THEN [r EXCEPT !.pc = "fetch", !.stage = "fetch recipe", !.kind = "", !.i = 0]
    ELSE IF Head(ks) = "foods" /\ entry(d).unmatched # <<>>
    THEN [r EXCEPT !.pc = "warn", !.stage = StageOf("foods"), !.kind = "foods",
                   !.i = 1]
    ELSE IF doc_names(d, Head(ks)) # <<>>
         THEN [r EXCEPT !.pc = "lookup", !.stage = StageOf(Head(ks)),
                        !.kind = Head(ks), !.i = 1]
         ELSE next_resolve(r, d, Tail(ks))

\* The keys ensure_* looks a name up under.
lookup_keys(kind, name) ==
    Only({IF kind = "foods"
          THEN <<food_key(text)>>
          ELSE <<category_key(text), category_key(slugify(text))>> :
          text \in {name}})

\* for key in keys: cached = CACHE.get(key) if key else None; first truthy one
RECURSIVE cache_lookup(_, _)
cache_lookup(c, keys) ==
    IF keys = <<>> THEN Absent
    ELSE IF Head(keys) # None /\ dict_get(c, Head(keys)) # Absent
         THEN dict_get(c, Head(keys))
         ELSE cache_lookup(c, Tail(keys))

\* The remote refuses a create whose name or slug it already holds.
remote_holds(kind, name) ==
    \E j \in DOMAIN remote[kind] :
        (Range(entity_keys(kind, remote[kind][j]))
            \cap Range(lookup_keys(kind, name))) \ {None} # {}

next_id == 1 + Len(remote.categories) + Len(remote.units) + Len(remote.foods)
             + Len(remote.tags)

\* The entity the remote stores for the payload of ensure_*.
created_entity(kind, name) ==
    IF kind = "foods"
    THEN [Entity(next_id, name, None) EXCEPT !.pluralName = name]
    ELSE Entity(next_id, name, slugify(name))

\* The keys a cache has held: those it held before and those it holds now.
keys_held(before, c) == [k \in Kinds |-> before[k] \cup DOMAIN c[k]]

\* Faulty variant: the region is entered without the lock
CanAcquireUnlocked(t) == TRUE

\* with CACHE_LOCK: a thread enters when the lock is free or its own.
CanAcquire(t) == lock = NoThread \/ lock = t

\* Faulty variant: the thread leaves the with block and keeps the lock
release_kept(t) == t

\* The end of a with block of a lock: no thread holds the lock.
release(t) == NoThread

\* ----------------------------------------------- end of a document attempt
\* process_recipe_file returns err (NoErr for None) to its caller: the loop
\* of the sequential mode, or the future of the pooled mode.
Finish(t, err) ==
    /\ th' = [th EXCEPT ![t] = [IdleThread EXCEPT !.idx = IF t = 0 THEN th[t].idx ELSE 0]]
    /\ lastResult' = [lastResult EXCEPT ![th[t].path] =
                          IF err = NoErr THEN "ok" ELSE "fail"]
    /\ IF t = 0
       THEN /\ errors_local' = IF err # NoErr THEN Append(errors_local, err)
                               ELSE errors_local
            /\ failed' = IF err # NoErr THEN Append(failed, th[t].path) ELSE failed
            /\ UNCHANGED <<fut, results>>
       ELSE /\ fut' = [fut EXCEPT ![th[t].idx] = [st |-> "done", err |-> err]]
            /\ results' = Append(results, <<th[t].idx, th[t].path, err>>)
            /\ UNCHANGED <<errors_local, failed>>
    /\ UNCHANGED mpc

\* An exception leaves process_recipe_file: in sequential mode it leaves
\* process_recipe_files and main() as well; in pooled mode it is stored in
\* the future.
Escape(t) ==
    /\ th' = [th EXCEPT ![t] = IdleThread]
    /\ lastResult' = [lastResult EXCEPT ![th[t].path] = "raised"]
    /\ IF t = 0
       THEN mpc' = "crashed" /\ fut' = fut
       ELSE /\ fut' = [fut EXCEPT ![th[t].idx] = [st |-> "raised", err |-> NoErr]]
            /\ mpc' = mpc
    /\ UNCHANGED <<errors_local, failed, results>>

\* The except clause of process_recipe_file: the exception becomes the
\* document's message, tagged with the stage.
Caught(t, text) == Finish(t, Err(th[t].path, th[t].stage, text))

Step(t, r) ==
    /\ th' = [th EXCEPT ![t] = r]
    /\ UNCHANGED <<fut, results, errors_local, failed, lastResult, mpc>>

Fault == faults < MaxFaults /\ faults' = faults + 1

NoFault == faults' = faults

\* ------------------------------------------------------- load_existing_*
\* Faulty variant: a failed preload request is swallowed and main() goes on with the
\* next cache
LoadRaiseSwallowed(t) ==
    IF mpc = "preload"
    THEN /\ IF pk < Len(PreloadOrder)
            THEN /\ pk' = pk + 1
                 /\ mpc' = mpc
                 /\ th' = [th EXCEPT ![t] = [IdleThread EXCEPT
                                                !.pc = "load_fetch",
                                                !.kind = PreloadOrder[pk + 1],
                                                !.page = 1]]
            ELSE /\ pk' = pk
                 /\ mpc' = "start"
                 /\ th' = [th EXCEPT ![t] = IdleThread]
         /\ UNCHANGED <<fut, results, errors_local, failed, lastResult>>
    ELSE pk' = pk /\ Caught(t, "unexpected response")

\* Faulty variant: the exception of a reload is not caught in
\* process_recipe_file
LoadRaiseEscaping(t) ==
    IF mpc = "preload"
    THEN /\ mpc' = "aborted"
         /\ pk' = pk
         /\ th' = [th EXCEPT ![t] = IdleThread]
         /\ UNCHANGED <<fut, results, errors_local, failed, lastResult>>
    ELSE pk' = pk /\ Escape(t)

\* raise RuntimeError(f"...: unexpected response {resp.status_code}"): during
\* the preload nothing catches it and main() ends; during a reload it is an
\* exception inside process_recipe_file's try.
LoadRaise(t) ==
    IF mpc = "preload"
    THEN /\ mpc' = "aborted"
         /\ pk' = pk
         /\ th' = [th EXCEPT ![t] = IdleThread]
         /\ UNCHANGED <<fut, results, errors_local, failed, lastResult>>
    ELSE pk' = pk /\ Caught(t, "unexpected response")

\* One GET of the page loop.
LoadFetch(t) ==
    /\ th[t].pc = "load_fetch"
    /\ UNCHANGED <<build_vars, warnings_lock, posted, held, thread_local, batch, workers, attempt, paths, failed_paths, errors,
                   cache, lock, remote, recipes, attempts, returned>>
    /\ \/ \* status != 200
          /\ Fault
          /\ LoadRaise(t)
       \/ /\ NoFault
          /\ pk' = pk
          /\ LET items == page_items(remote[th[t].kind], th[t].page)
                 got == add_page(th[t].kind, th[t].acc, th[t].seen, items)
             IN IF items = <<>>
                THEN Step(t, [th[t] EXCEPT !.pc = "load_clear", !.touched = TRUE])
                ELSE Step(t, [th[t] EXCEPT
                                !.acc = got.acc, !.seen = got.seen,
                                !.touched = TRUE,
                                !.pc = IF Len(items) < PerPage
                                       THEN "load_clear" ELSE "load_fetch",
                                !.page = IF Len(items) < PerPage THEN @ ELSE @ + 1])

\* with CACHE_LOCK: CACHE.clear()
LoadClear(t) ==
    /\ th[t].pc = "load_clear"
    /\ CanAcquire(t)
    /\ lock' = t
    /\ cache' = [cache EXCEPT ![th[t].kind] = EmptyDict]
    /\ Step(t, [th[t] EXCEPT !.pc = "load_update"])
    /\ UNCHANGED <<build_vars, warnings_lock, posted, held, thread_local, batch, workers, pk, attempt, paths, failed_paths, errors,
                   remote, recipes, faults, attempts, returned>>

\* CACHE.update(found); the lock is released; the function returns to main()
\* (preload) or to the ensure_* that asked for the reload.
LoadUpdate(t) ==
    /\ th[t].pc = "load_update"
    /\ lock' = release(t)
    /\ cache' = [cache EXCEPT ![th[t].kind] = dict_update(@, th[t].acc)]
    /\ IF mpc = "preload"
       THEN IF pk < Len(PreloadOrder)
            THEN /\ pk' = pk + 1
                 /\ Step(t, [IdleThread EXCEPT !.pc = "load_fetch",
                                               !.kind = PreloadOrder[pk + 1],
                                               !.page = 1])
            ELSE /\ pk' = pk
                 /\ th' = [th EXCEPT ![t] = IdleThread]
                 /\ mpc' = "start"
                 /\ UNCHANGED <<fut, results, errors_local, failed, lastResult>>
       ELSE /\ pk' = pk
            /\ Step(t, [th[t] EXCEPT !.pc = "relookup", !.acc = EmptyDict,
                                    !.seen = {}, !.page = 0])
    /\ UNCHANGED <<build_vars, warnings_lock, posted, thread_local, batch, workers, attempt, paths, failed_paths, errors,
                   remote, recipes, faults, attempts, returned>>
    /\ held' = keys_held(held, cache')

\* ---------------------------------------------------------------- ensure_*
cur_name(t) == doc_names(th[t].path, th[t].kind)[th[t].i]

\* ensure_* returns e: the caller goes on with the next name of the list or
\* with the next stage.
Resolved(t, e) ==
    /\ returned' = IF th[t].kind = "foods"
                   THEN dict_put(returned, food_key(cur_name(t)), e)
                   ELSE returned
    /\ LET r == [th[t] EXCEPT !.resp = 0, !.ent = Absent]
       IN Step(t, IF th[t].i < Len(doc_names(th[t].path, th[t].kind))
                  THEN [r EXCEPT !.i = @ + 1, !.pc = "lookup"]
                  ELSE next_resolve(r, th[t].path, KindsAfter(th[t].kind)))

\* with CACHE_LOCK: cached = CACHE.get(key); if cached: return cached
Lookup(t) ==
    /\ th[t].pc = "lookup"
    /\ CanAcquire(t)
    /\ LET cached == cache_lookup(cache[th[t].kind],
                                  lookup_keys(th[t].kind, cur_name(t)))
       IN IF cached # Absent
          THEN Resolved(t, cached)
          ELSE /\ Step(t, [th[t] EXCEPT !.pc = "post"])
               /\ returned' = returned
    /\ UNCHANGED <<build_vars, warnings_lock, posted, held, thread_local, batch, workers, pk, attempt, paths, failed_paths, errors,
                   cache, lock, remote, recipes, faults, attempts>>

StartReload(r, code) ==
    [r EXCEPT !.pc = "load_fetch", !.resp = code, !.page = 1,
              !.acc = EmptyDict, !.seen = {}, !.touched = TRUE]

\* name_key = _food_key(name), _category_key(title) or _tag_key(name)
name_key(kind, name) == Head(lookup_keys(kind, name))

\* resp = session.post(url, json=payload): the create request and the branch
\* taken on its status.
Post(t) ==
    /\ th[t].pc = "post"
    /\ posted' = posted \cup {<<th[t].kind, name_key(th[t].kind, cur_name(t))>>}
    /\ LET kind == th[t].kind
           name == cur_name(t)
           new == created_entity(kind, name)
       IN \/ \* 409: the remote holds the name
             /\ remote_holds(kind, name)
             /\ NoFault
             /\ remote' = remote
             /\ Step(t, StartReload(th[t], 409))
          \/ \* 201
             /\ ~remote_holds(kind, name)
             /\ NoFault
             /\ remote' = [remote EXCEPT ![kind] = Append(@, new)]
             /\ Step(t, [th[t] EXCEPT !.pc = "insert", !.ent = new,
                                      !.touched = TRUE])
          \/ \* 400: the remote rejects the payload
             /\ ~remote_holds(kind, name)
             /\ Fault
             /\ remote' = remote
             /\ Step(t, StartReload(th[t], 400))
          \/ \* 500
             /\ Fault
             /\ remote' = remote
             /\ Caught(t, "failed to create (500)")
          \/ \* the remote creates the entity and the response is lost (timeout)
             /\ ~remote_holds(kind, name)
             /\ Fault
             /\ remote' = [remote EXCEPT ![kind] = Append(@, new)]
             /\ Caught(t, "request failed")
    /\ UNCHANGED <<build_vars, warnings_lock, held, thread_local, batch, workers, pk, attempt, paths, failed_paths, errors,
                   cache, lock, recipes, attempts, returned>>

\* with CACHE_LOCK: the created entity is entered under its own keys.
Insert(t) ==
    /\ th[t].pc = "insert"
    /\ CanAcquire(t)
    /\ cache' = [cache EXCEPT ![th[t].kind] =
                    put_keys(@, entity_keys(th[t].kind, th[t].ent), th[t].ent)]
    /\ Resolved(t, th[t].ent)
    /\ UNCHANGED <<build_vars, warnings_lock, posted, thread_local, batch, workers, pk, attempt, paths, failed_paths, errors,
                   lock, remote, recipes, faults, attempts>>
    /\ held' = keys_held(held, cache')

FailedToCreate(code) ==
    IF code = 409 THEN "failed to create (409)" ELSE "failed to create (400)"

\* Faulty variant: a name still absent after the reload is answered with the body
\* of the failed create response, entered into the cache
RelookupTakesResponse(t) ==
    /\ th[t].pc = "relookup"
    /\ CanAcquire(t)
    /\ LET cached == cache_lookup(cache[th[t].kind],
                                  lookup_keys(th[t].kind, cur_name(t)))
           body == created_entity(th[t].kind, cur_name(t))
       IN IF cached # Absent
          THEN Resolved(t, cached) /\ cache' = cache
          ELSE /\ cache' = [cache EXCEPT ![th[t].kind] =
                               put_keys(@, entity_keys(th[t].kind, body), body)]
               /\ Resolved(t, body)
    /\ UNCHANGED <<build_vars, warnings_lock, posted, thread_local, batch, workers, pk, attempt, paths, failed_paths, errors,
                   lock, remote, recipes, faults, attempts>>
    /\ held' = keys_held(held, cache')

\* After the reload: with CACHE_LOCK the name is looked up again; found, it
\* is returned; else the RuntimeError of the failed create is raised.
Relookup(t) ==
    /\ th[t].pc = "relookup"
    /\ CanAcquire(t)
    /\ LET cached == cache_lookup(cache[th[t].kind],
                                  lookup_keys(th[t].kind, cur_name(t)))
       IN IF cached # Absent
          THEN Resolved(t, cached)
          ELSE /\ Caught(t, FailedToCreate(th[t].resp))
               /\ returned' = returned
    /\ UNCHANGED <<build_vars, warnings_lock, posted, held, thread_local, batch, workers, pk, attempt, paths, failed_paths, errors,
                   cache, lock, remote, recipes, faults, attempts>>

\* --------------------------------------------------------- append_warning
\* Where build_recipe_ingredients goes after the warning of a SKU: to the
\* next SKU without ingredient, then to the foods of the items.
after_warning(r, d) ==
    IF r.i < Len(entry(d).unmatched)
    THEN [r EXCEPT !.pc = "warn", !.i = @ + 1]
    ELSE IF doc_names(d, "foods") # <<>>
         THEN [r EXCEPT !.pc = "lookup", !.i = 1]
         ELSE next_resolve(r, d, KindsAfter("foods"))

\* with WARNINGS_LOCK: the thread enters when no thread holds the lock.
AcquireWarnings(t) ==
    /\ th[t].pc = "warn"
    /\ warnings_lock = NoThread
    /\ warnings_lock' = t
    /\ Step(t, [th[t] EXCEPT !.pc = "warn_append"])
    /\ UNCHANGED <<build_vars, posted, held, thread_local, batch, workers, pk,
                   attempt, paths, failed_paths, errors, cache, lock, remote,
                   recipes, faults, attempts, returned>>

\* warnings.append(message), and the lock is released.
AppendWarning(t) ==
    /\ th[t].pc = "warn_append"
    /\ warnings' =
          Append(warnings,
                 SkuWarning(code_key(entry(th[t].path).unmatched[th[t].i])))
    /\ warnings_lock' = release(t)
    /\ Step(t, after_warning(th[t], th[t].path))
    /\ UNCHANGED <<all_items, portion_skus, sku_idx, ordered_items, item_idx,
                   recipe_ingredients, iter, unit_a, unit_b, compatible,
                   posted, held, thread_local, batch, workers, pk, attempt,
                   paths, failed_paths, errors, cache, lock, remote, recipes,
                   faults, attempts, returned>>

\* ------------------------------------------------------ process_recipe_file
slug_of(d) == slugify(entry(d).title)

\* Faulty variant: the early return on a missing slug is absent
ReadWithoutSlugCheck(t) ==
    /\ th[t].pc = "read"
    /\ LET d == th[t].path
       IN CASE entry(d).state = "unreadable" -> Finish(t, Err(d, "", "failed to read"))
            [] entry(d).state = "badshape" -> Escape(t)
            [] OTHER ->
                 Step(t, next_resolve(th[t], d, <<"categories", "foods", "tags">>))
    /\ UNCHANGED <<build_vars, warnings_lock, posted, held, thread_local, batch, workers, pk, attempt, paths, failed_paths, errors,
                   cache, lock, remote, recipes, faults, attempts,
                   returned>>

\* json.load, extract_entry, the slug and the gather_* calls.
Read(t) ==
    /\ th[t].pc = "read"
    /\ LET d == th[t].path
       IN CASE entry(d).state = "unreadable" -> Finish(t, Err(d, "", "failed to read"))
            [] entry(d).state = "badshape" -> Escape(t)
            [] OTHER ->
                 IF slug_of(d) = None
                 THEN Finish(t, Err(d, "", "canonical slug missing"))
                 ELSE Step(t, next_resolve(th[t], d, <<"categories", "foods", "tags">>))
    /\ UNCHANGED <<build_vars, warnings_lock, posted, held, thread_local, batch, workers, pk, attempt, paths, failed_paths, errors,
                   cache, lock, remote, recipes, faults, attempts,
                   returned>>

\* Where process_recipe_file goes after update_recipe.
after_update(r, d) ==
    IF entry(d).image # "none" /\ (r.created_new \/ ~r.recipe.image)
    THEN [r EXCEPT !.pc = "image", !.stage = "upload recipe image"]
    ELSE IF entry(d).assets # <<>>
         THEN [r EXCEPT !.pc = "asset_check", !.stage = "sync instruction assets",
                        !.i = 1]
         ELSE [r EXCEPT !.pc = "return"]

after_image(r, d) ==
    IF entry(d).assets # <<>>
    THEN [r EXCEPT !.pc = "asset_check", !.stage = "sync instruction assets",
                   !.i = 1]
    ELSE [r EXCEPT !.pc = "return"]

after_asset(r, d) ==
    IF r.i < Len(entry(d).assets)
    THEN [r EXCEPT !.pc = "asset_check", !.i = @ + 1]
    ELSE [r EXCEPT !.pc = "return"]

\* The status codes of the responses to the requests for a recipe.
RecipeCodes == {200, 201, 204, 404}

\* fetch_recipe: the body on 200, None on 404, a RuntimeError otherwise.
fetch_recipe(code) ==
    IF code = 200 THEN "json" ELSE IF code = 404 THEN "none" ELSE "raise"

\* create_recipe: if resp.status_code not in (200, 201): raise
create_recipe_ok(code) == code \in {200, 201}

\* update_recipe: if resp.status_code not in (200, 201): raise
update_recipe_ok(code) == code \in {200, 201}

\* The messages of the RuntimeErrors, which name the status.
unexpected_response(code) == "unexpected response " \o ToString(code)

failed_to_create_recipe(code) ==
    "failed to create recipe (" \o ToString(code) \o ")"

failed_to_update_recipe(code) ==
    "failed to update recipe (" \o ToString(code) \o ")"

\* fetch_recipe (first call).  The remote answers 200 for a recipe it holds
\* and 404 for one it does not hold; any other answer is a fault.
Fetch(t) ==
    /\ th[t].pc = "fetch"
    /\ \E code \in RecipeCodes :
         LET slug == slug_of(th[t].path)
         IN /\ code = 200 => slug \in DOMAIN recipes
            /\ code = 404 => slug \notin DOMAIN recipes
            /\ IF code \in {200, 404} THEN NoFault ELSE Fault
            /\ CASE fetch_recipe(code) = "json" ->
                     Step(t, [th[t] EXCEPT !.pc = "update",
                                           !.stage = "update recipe",
                                           !.recipe = recipes[slug],
                                           !.resp = code, !.touched = TRUE])
                 [] fetch_recipe(code) = "none" ->
                     Step(t, [th[t] EXCEPT !.pc = "create",
                                           !.stage = "create recipe",
                                           !.resp = code, !.touched = TRUE])
                 [] OTHER -> Caught(t, unexpected_response(code))
    /\ UNCHANGED <<build_vars, warnings_lock, posted, held, thread_local, batch, workers, pk, attempt, paths, failed_paths, errors,
                   cache, lock, remote, recipes, attempts, returned>>

\* create_recipe.  The remote makes the placeholder when it answers with a
\* 2xx status; any answer but 200 and 201 is a fault.
Create(t) ==
    /\ th[t].pc = "create"
    /\ \E code \in RecipeCodes :
         /\ IF code \in {200, 201} THEN NoFault ELSE Fault
         /\ recipes' = IF code \in {200, 201, 204}
                       THEN dict_put(recipes, slug_of(th[t].path),
                                     Recipe(FALSE, 0, <<>>, <<>>))
                       ELSE recipes
         /\ IF create_recipe_ok(code)
            THEN Step(t, [th[t] EXCEPT !.pc = "fetch2",
                                       !.stage = "fetch created recipe",
                                       !.created_new = TRUE, !.resp = code,
                                       !.touched = TRUE])
            ELSE Caught(t, failed_to_create_recipe(code))
    /\ UNCHANGED <<build_vars, warnings_lock, posted, held, thread_local, batch, workers, pk, attempt, paths, failed_paths, errors,
                   cache, lock, remote, attempts, returned>>

\* fetch_recipe after the create: the remote holds the recipe, and any
\* answer but 200 is a fault.
Fetch2(t) ==
    /\ th[t].pc = "fetch2"
    /\ \E code \in RecipeCodes :
         LET slug == slug_of(th[t].path)
         IN /\ IF code = 200 THEN NoFault ELSE Fault
            /\ CASE fetch_recipe(code) = "json" ->
                     Step(t, [th[t] EXCEPT !.pc = "update",
                                           !.stage = "update recipe",
                                           !.recipe = dict_get(recipes, slug),
                                           !.resp = code])
                 [] fetch_recipe(code) = "none" ->
                     Finish(t, Err(th[t].path, "",
                                   "failed to fetch recipe after creation"))
                 [] OTHER -> Caught(t, unexpected_response(code))
    /\ UNCHANGED <<build_vars, warnings_lock, posted, held, thread_local, batch, workers, pk, attempt, paths, failed_paths, errors,
                   cache, lock, remote, recipes, attempts, returned>>

\* recipe_categories: the categories of the titles, None without titles.
recipe_categories(d) ==
    [i \in DOMAIN doc_names(d, "categories") |->
        category_key(doc_names(d, "categories")[i])]

\* has_ingredients = bool(ingredients) or bool(portion_skus)
has_ingredients(d) == entry(d).items # <<>> \/ entry(d).unmatched # <<>>

\* recipe_ingredients: an entry for each food key of the items that have a
\* name (the items of a key are merged: their labels hold no unit).
recipe_ingredients_of(d) ==
    unique_names([i \in DOMAIN doc_names(d, "foods") |->
                     food_key(doc_names(d, "foods")[i])], {})

\* Faulty variant: a list that is not provided is sent empty
payload_list_overwriting(provided, list, existing) ==
    IF provided THEN list ELSE <<>>

\* A list of the payload of update_recipe: the list given, or the list of
\* the fetched recipe when none is given.
payload_list(provided, list, existing) ==
    IF provided THEN list ELSE existing

\* update_recipe: the fetched recipe is sent back with the lists of the
\* document.
Update(t) ==
    /\ th[t].pc = "update"
    /\ \E code \in RecipeCodes :
         /\ IF code \in {200, 201} THEN NoFault ELSE Fault
         /\ LET d == th[t].path
            IN recipes' =
                 IF code \in {200, 201, 204}
                 THEN [recipes EXCEPT
                         ![slug_of(d)].recipeCategory =
                             payload_list(doc_names(d, "categories") # <<>>,
                                          recipe_categories(d),
                                          th[t].recipe.recipeCategory),
                         ![slug_of(d)].recipeIngredient =
                             payload_list(has_ingredients(d),
                                          recipe_ingredients_of(d),
                                          th[t].recipe.recipeIngredient)]
                 ELSE recipes
         /\ IF update_recipe_ok(code)
            THEN Step(t, after_update([th[t] EXCEPT !.resp = code,
                                                   !.touched = TRUE],
                                      th[t].path))
            ELSE Caught(t, failed_to_update_recipe(code))
    /\ UNCHANGED <<build_vars, warnings_lock, posted, held, thread_local, batch, workers, pk, attempt, paths, failed_paths, errors,
                   cache, lock, remote, attempts, returned>>

\* upload_recipe_image
Image(t) ==
    /\ th[t].pc = "image"
    /\ LET d == th[t].path
       IN \/ /\ entry(d).image = "nofile"
             /\ NoFault
             /\ recipes' = recipes
             /\ Caught(t, "image not found")
          \/ /\ entry(d).image = "file"
             /\ Fault
             /\ recipes' = recipes
             /\ Caught(t, "failed to upload image")
          \/ /\ entry(d).image = "file"
             /\ NoFault
             /\ recipes' = [recipes EXCEPT ![slug_of(d)].image = TRUE]
             /\ Step(t, after_image(th[t], d))
    /\ UNCHANGED <<build_vars, warnings_lock, posted, held, thread_local, batch, workers, pk, attempt, paths, failed_paths, errors,
                   cache, lock, remote, attempts, returned>>

\* asset_exists before the upload; a failing request counts as "no"
AssetCheck(t) ==
    /\ th[t].pc = "asset_check"
    /\ LET d == th[t].path
       IN \/ /\ Fault
             /\ Step(t, [th[t] EXCEPT !.pc = "asset_upload"])
          \/ /\ NoFault
             /\ IF recipes[slug_of(d)].assets >= th[t].i
                THEN Step(t, after_asset(th[t], d))
                ELSE Step(t, [th[t] EXCEPT !.pc = "asset_upload"])
    /\ UNCHANGED <<build_vars, warnings_lock, posted, held, thread_local, batch, workers, pk, attempt, paths, failed_paths, errors,
                   cache, lock, remote, recipes, attempts, returned>>

\* upload_recipe_asset, then the asset_exists whose answer is not used
AssetUpload(t) ==
    /\ th[t].pc = "asset_upload"
    /\ LET d == th[t].path
       IN \/ /\ entry(d).assets[th[t].i] = "nofile"
             /\ NoFault
             /\ recipes' = recipes
             /\ Caught(t, "asset not found")
          \/ /\ entry(d).assets[th[t].i] = "file"
             /\ Fault
             /\ recipes' = recipes
             /\ Caught(t, "failed to upload asset")
          \/ /\ entry(d).assets[th[t].i] = "file"
             /\ NoFault
             /\ recipes' = [recipes EXCEPT ![slug_of(d)].assets = th[t].i]
             /\ Step(t, after_asset(th[t], d))
    /\ UNCHANGED <<build_vars, warnings_lock, posted, held, thread_local, batch, workers, pk, attempt, paths, failed_paths, errors,
                   cache, lock, remote, attempts, returned>>

\* return None
Succeed(t) ==
    /\ th[t].pc = "return"
    /\ Finish(t, NoErr)
    /\ UNCHANGED <<build_vars, warnings_lock, posted, held, thread_local, batch, workers, pk, attempt, paths, failed_paths, errors,
                   cache, lock, remote, recipes, faults, attempts,
                   returned>>

\* --------------------------------------------------- process_recipe_files
\* if max_workers <= 1 or total <= 1: the sequential loop
Sequential(ps) == workers <= 1 \/ Len(ps) <= 1

\* The call process_recipe_files(ps, ...): its locals are set up, among them
\* a new thread_local, and the mode is chosen.
StartPass(ps) ==
    /\ paths' = ps
    /\ thread_local' = [t \in 1..MaxWorkers |-> NoSession]
    /\ errors_local' = <<>>
    /\ failed' = <<>>
    /\ results' = <<>>
    /\ IF Sequential(ps)
       THEN mpc' = "seq" /\ fut' = <<>>
       ELSE /\ mpc' = "pool"
            /\ fut' = [i \in 1..Len(ps) |-> [st |-> "pending", err |-> NoErr]]

\* A thread starts process_recipe_file(sess, ...) on the i-th path of the
\* pass.
StartDoc(t, i, sess) ==
    /\ th' = [th EXCEPT ![t] = [IdleThread EXCEPT !.pc = "read", !.idx = i,
                                                  !.path = paths[i],
                                                  !.stage = "read recipe file",
                                                  !.session = sess]]
    /\ attempts' = [attempts EXCEPT ![paths[i]] = @ + 1]

\* for idx, path in enumerate(paths, start=1): the next document, or the
\* return of (failed, errors_local)
SeqNext ==
    /\ mpc = "seq"
    /\ th[0].pc = "idle"
    /\ IF th[0].idx < Len(paths)
       THEN /\ StartDoc(0, th[0].idx + 1, CallerSession)
            /\ mpc' = mpc
       ELSE /\ th' = [th EXCEPT ![0] = IdleThread]
            /\ mpc' = "returned"
            /\ attempts' = attempts
    /\ UNCHANGED <<build_vars, warnings_lock, posted, held, thread_local, batch, workers, pk, attempt, paths, failed_paths, errors,
                   errors_local, failed, fut, results, cache, lock, remote,
                   recipes, faults, lastResult, returned>>

Pending == {i \in DOMAIN fut : fut[i].st = "pending"}

\* Faulty variant: the workers are handed the session of the caller
get_session_of_caller(t) == CallerSession

\* get_session(): the session of the thread, built by the factory when the
\* thread has none yet.
get_session(t) ==
    IF thread_local[t] # NoSession THEN thread_local[t]
    ELSE factory_session(attempt, t)

\* A pool thread takes the oldest submitted work item: worker(idx, path).
Take(t) ==
    /\ mpc \in {"pool", "pool_raised"}
    /\ t \in 1..workers
    /\ th[t].pc = "idle"
    /\ Pending # {}
    /\ LET i == CHOOSE j \in Pending : \A k \in Pending : j <= k
           sess == get_session(t)
       IN /\ fut' = [fut EXCEPT ![i].st = "running"]
          /\ thread_local' = [thread_local EXCEPT ![t] = sess]
          /\ StartDoc(t, i, sess)
    /\ UNCHANGED <<build_vars, warnings_lock, posted, held, batch, workers, mpc, pk, attempt, paths, failed_paths,
                   errors, errors_local, failed, results, cache, lock, remote,
                   recipes, faults, lastResult, returned>>

\* future.result() re-raises the exception of the worker.
CollectRaised ==
    /\ mpc = "pool"
    /\ \E i \in DOMAIN fut : fut[i].st = "raised"
    /\ mpc' = "pool_raised"
    /\ UNCHANGED <<build_vars, warnings_lock, posted, held, thread_local, batch, workers, pk, attempt, paths, failed_paths, errors,
                   errors_local, failed, fut, results, th, cache, lock, remote,
                   recipes, faults, attempts, lastResult, returned>>

\* The executor's with-block ends on the exception: it waits for the work
\* items still queued or running, then the exception leaves main().
PoolRaise ==
    /\ mpc = "pool_raised"
    /\ \A i \in DOMAIN fut : fut[i].st \in {"done", "raised"}
    /\ mpc' = "crashed"
    /\ UNCHANGED <<build_vars, warnings_lock, posted, held, thread_local, batch, workers, pk, attempt, paths, failed_paths, errors,
                   errors_local, failed, fut, results, th, cache, lock, remote,
                   recipes, faults, attempts, lastResult, returned>>

\* Faulty variant: the results are left in the order of completion
completion_order(rs) == rs

\* sorted(results, key=lambda item: item[0])
sorted_results(rs) ==
    [i \in 1..Len(rs) |-> rs[CHOOSE j \in DOMAIN rs : rs[j][1] = i]]

RECURSIVE failed_of(_)
failed_of(rs) ==
    IF rs = <<>> THEN <<>>
    ELSE (IF Head(rs)[3] # NoErr THEN <<Head(rs)[2]>> ELSE <<>>)
         \o failed_of(Tail(rs))

RECURSIVE errors_of(_)
errors_of(rs) ==
    IF rs = <<>> THEN <<>>
    ELSE (IF Head(rs)[3] # NoErr THEN <<Head(rs)[3]>> ELSE <<>>)
         \o errors_of(Tail(rs))

\* as_completed has given every future: the results are sorted by index and
\* split into failed and errors_local.
PoolReturn ==
    /\ mpc = "pool"
    /\ \A i \in DOMAIN fut : fut[i].st = "done"
    /\ failed' = failed_of(sorted_results(results))
    /\ errors_local' = errors_of(sorted_results(results))
    /\ mpc' = "returned"
    /\ UNCHANGED <<build_vars, warnings_lock, posted, held, thread_local, batch, workers, pk, attempt, paths, failed_paths, errors,
                   fut, results, th, cache, lock, remote, recipes, faults,
                   attempts, lastResult, returned>>

\* ------------------------------------------------------------------ main()
\* The first call: process_recipe_files(recipe_files, ...)
FirstPass ==
    /\ mpc = "start"
    /\ StartPass([i \in DOMAIN recipe_files |-> i])
    /\ UNCHANGED <<build_vars, warnings_lock, posted, held, batch, workers, pk, attempt, failed_paths, errors, th,
                   cache, lock, remote, recipes, faults, attempts, lastResult,
                   returned>>

\* Faulty variant: errors.extend(...)
assign_errors_extend(old, new) == old \o new

\* errors[:] = <the errors the call returned>
assign_errors(old, new) == new

\* Faulty variant: every file is retried
retry_input_all(all, failed_now) == all

\* The paths handed to the next retry pass.
retry_input(all, failed_now) == failed_now

\* Faulty variant: range(1, 12)
retry_again_once_more(att, failed_now) ==
    IF att = 0 THEN failed_now # <<>>
    ELSE failed_now # <<>> /\ att < MaxRetries + 1

\* The retry loop goes on to another pass: after the first pass when a
\* document failed; in the loop, when one failed and attempts are left.
retry_again(att, failed_now) ==
    IF att = 0 THEN failed_now # <<>>
    ELSE failed_now # <<>> /\ att < MaxRetries

\* failed_paths, errors[:] = process_recipe_files(...), then the retry loop
\* or the report.
AfterPass ==
    /\ mpc = "returned"
    /\ failed_paths' = failed
    /\ errors' = assign_errors(errors, errors_local)
    /\ IF retry_again(attempt, failed)
       THEN /\ attempt' = attempt + 1
            /\ StartPass(retry_input([i \in DOMAIN recipe_files |-> i], failed))
       ELSE /\ attempt' = attempt
            /\ mpc' = "report"
            /\ UNCHANGED <<paths, errors_local, failed, fut, results,
                           thread_local>>
    /\ UNCHANGED <<build_vars, warnings_lock, posted, held, batch, workers, pk, th, cache, lock, remote, recipes,
                   faults, attempts, lastResult, returned>>

\* The warnings and the errors are printed.
Report ==
    /\ mpc = "report"
    /\ mpc' = "done"
    /\ UNCHANGED <<build_vars, warnings_lock, posted, held, thread_local, batch, workers, pk, attempt, paths, failed_paths, errors,
                   errors_local, failed, fut, results, th, cache, lock, remote,
                   recipes, faults, attempts, lastResult, returned>>

\* The exit status of the process once main() has ended: main() returns
\* normally after the report whatever the report holds (status 0), and an
\* exception that leaves main() ends the interpreter with status 1.
NotExited == 0 - 1

exit_status ==
    CASE mpc = "done" -> 0
      [] mpc \in {"aborted", "crashed"} -> 1
      [] OTHER -> NotExited

Next ==
    \/ \E t \in Threads : LoadFetch(t)
    \/ \E t \in Threads : LoadClear(t)
    \/ \E t \in Threads : LoadUpdate(t)
    \/ \E t \in Threads : Read(t)
    \/ \E t \in Threads : AcquireWarnings(t)
    \/ \E t \in Threads : AppendWarning(t)
    \/ \E t \in Threads : Lookup(t)
    \/ \E t \in Threads : Post(t)
    \/ \E t \in Threads : Insert(t)
    \/ \E t \in Threads : Relookup(t)
    \/ \E t \in Threads : Fetch(t)
    \/ \E t \in Threads : Create(t)
    \/ \E t \in Threads : Fetch2(t)
    \/ \E t \in Threads : Update(t)
    \/ \E t \in Threads : Image(t)
    \/ \E t \in Threads : AssetCheck(t)
    \/ \E t \in Threads : AssetUpload(t)
    \/ \E t \in Threads : Succeed(t)
    \/ \E t \in Threads : Take(t)
    \/ FirstPass
    \/ SeqNext
    \/ CollectRaised
    \/ PoolRaise
    \/ PoolReturn
    \/ AfterPass
    \/ Report

Spec == Init /\ [][Next]_vars

\* ----------------------------------------------------------------- labels
\* The labels the ingredient builder is run on.
\* "Chicken (100g) x2"
LChickenX2 ==
    <<"C", "h", "i", "c", "k", "e", "n", " ", "(", "1", "0", "0", "g", ")",
      " ", "x", "2">>

\* "Onion x2"
LOnionX2 == <<"O", "n", "i", "o", "n", " ", "x", "2">>

\* "Onion x0"
LOnionX0 == <<"O", "n", "i", "o", "n", " ", "x", "0">>

\* "onion"
LOnion == <<"o", "n", "i", "o", "n">>

\* "100g flour"
LFlour100 == <<"1", "0", "0", "g", " ", "f", "l", "o", "u", "r">>

\* "50 g flour"
LFlour50 == <<"5", "0", " ", "g", " ", "f", "l", "o", "u", "r">>

\* "1/2 onion"
LHalfOnion == <<"1", "/", "2", " ", "o", "n", "i", "o", "n">>

\* "1/0 onion"
LZeroDenom == <<"1", "/", "0", " ", "o", "n", "i", "o", "n">>

\* "-2 onions"
LMinusOnions == <<"-", "2", " ", "o", "n", "i", "o", "n", "s">>

\* "2 x 110g salmon fillets"
LSalmon ==
    <<"2", " ", "x", " ", "1", "1", "0", "g", " ", "s", "a", "l", "m", "o",
      "n", " ", "f", "i", "l", "l", "e", "t", "s">>

\* "1 lemon"
LLemon == <<"1", " ", "l", "e", "m", "o", "n">>

\* "2 onions (15g)"
LOnionsBracket ==
    <<"2", " ", "o", "n", "i", "o", "n", "s", " ", "(", "1", "5", "g", ")">>

\* "1/2 tsp salt"
LSalt == <<"1", "/", "2", " ", "t", "s", "p", " ", "s", "a", "l", "t">>

\* "200ml milk"
LMilk == <<"2", "0", "0", "m", "l", " ", "m", "i", "l", "k">>

\* "Onion x0.5"
LOnionHalfX == <<"O", "n", "i", "o", "n", " ", "x", "0", ".", "5">>

\* "Flour"
LFlour == <<"F", "l", "o", "u", "r">>

\* "(200g) tin chopped tomatoes"
LTinTomatoes ==
    <<"(", "2", "0", "0", "g", ")", " ", "t", "i", "n", " ", "c", "h", "o", "p",
      "p", "e", "d", " ", "t", "o", "m", "a", "t", "o", "e", "s">>

Labels ==
    {LChickenX2, LOnionX2, LOnionX0, LOnion, LFlour100,
     LFlour50, LHalfOnion, LZeroDenom, LMinusOnions, LSalmon,
     LLemon, LOnionsBracket, LSalt, LMilk, LOnionHalfX, LFlour}

\* ------------------------------------------------ the ingredient builder
\* "salmon" in label.lower()
Salmon == <<"s", "a", "l", "m", "o", "n">>

\* The first token of the label as the parser reads it:
\* parts[0].rstrip(","), without a final "x" when more precedes it.
first_token(parts) ==
    LET first == rstrip_comma(parts[1])
    IN IF Len(first) > 1 /\ first[Len(first)] = "x"
       THEN SubSeq(first, 1, Len(first) - 1)
       ELSE first

\* The amount of a first token that is not a number with a unit attached:
\* a fraction num/denom or a float; ValueError and ZeroDivisionError give
\* None.
plain_amount(first) ==
    LET slash == first_index({k \in DOMAIN first : first[k] = "/"})
        num == to_float(SubSeq(first, 1, slash - 1))
        denom == to_float(SubSeq(first, slash + 1, Len(first)))
    IN IF slash = 0 THEN to_float(first)
       ELSE IF num = NoQty \/ denom = NoQty THEN NoQty
       ELSE RatDiv(num, denom)

\* unit_token.lower() not in unit_aliases
not_a_unit(unit_token) == unit_alias(lower_str(unit_token)) = None

\* qty, unit_token, lock_quantity, count_multiplier and multiplier_applied
\* as parse_quantity_and_unit starts.
ParseStart ==
    [qty |-> NoQty, unit_token |-> None, lock_quantity |-> FALSE,
     count_multiplier |-> NoQty, multiplier_applied |-> FALSE]

\* "2 x 110g salmon fillets": the count is the quantity, and it is locked.
stage_multi(label, st) ==
    LET mm == multi_match(label)
    IN IF mm.found
       THEN [st EXCEPT !.qty = mm.count,
                       !.unit_token = IF has_sub(lower_str(label), Salmon)
                                      THEN mm.unit ELSE None,
                       !.lock_quantity = TRUE]
       ELSE st

\* A label multiplier alongside a parenthesized weight: the weight is the
\* quantity, and it is locked.
stage_paren(label, st) ==
    LET pm == paren_match(label)
    IN IF ~st.lock_quantity /\ extract_multiplier(label) # NoQty /\ pm.found
       THEN [st EXCEPT !.qty = pm.num, !.unit_token = pm.unit,
                       !.lock_quantity = TRUE]
       ELSE st

\* The try block on the first token: a number with the unit attached, or a
\* fraction or number with the next token as the unit.
first_token_read(parts, st) ==
    LET first == first_token(parts)
        e == number_end(first, 1)
        attached == e > 1 /\ e <= Len(first)
                        /\ run_end(first, e, Alpha) = Len(first) + 1
        amount == plain_amount(first)
    IN IF attached
       THEN [st EXCEPT !.qty = number_value(first, 1, e),
                       !.unit_token = SubSeq(first, e, Len(first))]
       ELSE IF amount # NoQty
            THEN [st EXCEPT !.qty = amount,
                            !.unit_token = IF Len(parts) > 1
                                           THEN rstrip_comma(parts[2])
                                           ELSE @]
            ELSE st

\* The first token stage, with the count multiplier it infers.
stage_first(label, st) ==
    LET parts == split(strip(label))
        t3 == first_token_read(parts, st)
    IN IF st.qty = NoQty /\ parts # <<>>
       THEN IF ~t3.lock_quantity /\ t3.qty # NoQty
                 /\ (t3.unit_token = None \/ not_a_unit(t3.unit_token))
            THEN [t3 EXCEPT !.count_multiplier = t3.qty]
            ELSE t3
       ELSE st

\* A token that is no unit is dropped.
stage_drop(st) ==
    IF st.unit_token # None /\ not_a_unit(st.unit_token)
    THEN [st EXCEPT
             !.count_multiplier = IF @ = NoQty /\ st.qty # NoQty THEN st.qty ELSE @,
             !.unit_token = None]
    ELSE st

\* "(15g)" anywhere in the label, times the count multiplier.
stage_bracket(label, st) ==
    LET pm == paren_match(label)
    IN IF ~st.lock_quantity /\ (st.qty = NoQty \/ st.unit_token = None)
             /\ pm.found
       THEN IF st.count_multiplier # NoQty
                 /\ st.count_multiplier # RatOfInt(1)
            THEN [st EXCEPT !.qty = RatMul(pm.num, st.count_multiplier),
                            !.unit_token = pm.unit,
                            !.multiplier_applied = TRUE]
            ELSE [st EXCEPT !.qty = pm.num, !.unit_token = pm.unit]
       ELSE st

\* A number and a unit anywhere in the label.
stage_fallback(label, st) ==
    LET fm == number_unit_match(label)
    IN IF ~st.lock_quantity /\ (st.qty = NoQty \/ st.unit_token = None)
             /\ fm.found
       THEN [st EXCEPT !.qty = fm.num, !.unit_token = fm.unit]
       ELSE st

\* The count multiplier is applied when no stage has applied it.
stage_final(st) ==
    IF /\ ~st.lock_quantity
       /\ st.count_multiplier # NoQty
       /\ st.qty # NoQty
       /\ ~st.multiplier_applied
       /\ st.qty # st.count_multiplier
    THEN [st EXCEPT !.qty = RatMul(st.qty, st.count_multiplier)]
    ELSE st

\* The locals of parse_quantity_and_unit after each of its stages, in the
\* order of the code.
after_multi(label) == stage_multi(label, ParseStart)

after_paren(label) ==
    Only({stage_paren(label, st) : st \in {after_multi(label)}})

after_first(label) ==
    Only({stage_first(label, st) : st \in {after_paren(label)}})

after_drop(label) == Only({stage_drop(st) : st \in {after_first(label)}})

after_bracket(label) ==
    Only({stage_bracket(label, st) : st \in {after_drop(label)}})

after_fallback(label) ==
    Only({stage_fallback(label, st) : st \in {after_bracket(label)}})

after_final(label) == Only({stage_final(st) : st \in {after_fallback(label)}})

\* The stages of parse_quantity_and_unit up to the unit lookup.
parse_stages(label) ==
    [first |-> after_first(label), final |-> after_final(label)]

\* The unit lookup that ends parse_quantity_and_unit: units is UNITS_BY_KEY.
\* A token without an alias gives no unit; one whose unit is not cached, or
\* is cached without an id, gives no unit and a warning.
resolve_unit(units, unit_token) ==
    LET alias == unit_alias(lower_str(unit_token))
        by_alias == dict_get(units, unit_key(alias))
        by_token == IF unit_key(unit_token) # None
                    THEN dict_get(units, unit_key(unit_token)) ELSE Absent
        resolved_unit == IF by_alias # Absent THEN by_alias ELSE by_token
    IN IF unit_token = None \/ alias = None
       THEN [unit |-> Absent, warned |-> FALSE]
       ELSE IF resolved_unit = Absent \/ resolved_unit.id = 0
            THEN [unit |-> Absent, warned |-> TRUE]
            ELSE [unit |-> resolved_unit, warned |-> FALSE]

\* parse_quantity_and_unit(label) with the unit cache as it is.
parse_quantity_and_unit(label) ==
    IF label = <<>> THEN [qty |-> NoQty, unit |-> Absent, warned |-> FALSE]
    ELSE Only({[qty |-> st.qty,
                unit |-> resolve_unit(cache.units, st.unit_token).unit,
                warned |-> resolve_unit(cache.units, st.unit_token).warned] :
                  st \in {after_final(label)}})

\* ----------------------------------------------------- regular expressions
\* A pattern of the re module is a tree; Match gives the matches of a
\* pattern that start at an index in the order re tries them, so the first
\* is the one re.match returns.  A match is the index after it and the spans
\* of its groups.
Chr(set) == [op |-> "chr", set |-> set]

\* [^...]
NotChr(set) == [op |-> "nchr", set |-> set]

Cat(parts) == [op |-> "cat", parts |-> parts]

Alt(parts) == [op |-> "alt", parts |-> parts]

\* a?
Opt(a) == [op |-> "opt", a |-> a]

\* a*
Star(a) == [op |-> "star", a |-> a]

\* a+
Plus(a) == Cat(<<a, Star(a)>>)

\* (?P<name>a), or a numbered group
Group(name, a) == [op |-> "grp", name |-> name, a |-> a]

\* (?!a) for a class of characters
NotAhead(set) == [op |-> "nahead", set |-> set]

\* ^, $ and \b
Bol == [op |-> "bol"]

Eol == [op |-> "eol"]

WordB == [op |-> "wb"]

\* A character under re.IGNORECASE
AnyCase(c) == Chr({c} \cup {a \in Alpha : lower(a) = lower(c)})

\* A word under re.IGNORECASE
Word(w) == Cat([i \in DOMAIN w |-> AnyCase(w[i])])

\* (?:w1|w2|...) under re.IGNORECASE
Words(ws) == Alt([i \in DOMAIN ws |-> Word(ws[i])])

\* \w
WordChars == Alpha \cup Digits \cup {"_"}

NoGroups == [name \in {} |-> <<0, 0>>]

Found(e, g) == [e |-> e, g |-> g]

is_word(s, i) == i >= 1 /\ i <= Len(s) /\ s[i] \in WordChars

RECURSIVE Match(_, _, _, _), match_cat(_, _, _, _), match_alt(_, _, _, _),
          match_rest(_, _, _, _), match_star(_, _, _, _)
Match(r, s, i, g) ==
    CASE r.op = "chr" ->
            IF i <= Len(s) /\ s[i] \in r.set THEN <<Found(i + 1, g)>> ELSE <<>>
      [] r.op = "nchr" ->
            IF i <= Len(s) /\ s[i] \notin r.set THEN <<Found(i + 1, g)>> ELSE <<>>
      [] r.op = "cat" -> match_cat(r.parts, s, i, g)
      [] r.op = "alt" -> match_alt(r.parts, s, i, g)
      [] r.op = "opt" -> Match(r.a, s, i, g) \o <<Found(i, g)>>
      [] r.op = "star" ->
            Only({match_star(first, r, s, i) : first \in {Match(r.a, s, i, g)}})
                \o <<Found(i, g)>>
      [] r.op = "grp" ->
            Only({[k \in DOMAIN ms |->
                      Found(ms[k].e,
                            [n \in DOMAIN ms[k].g \cup {r.name} |->
                                IF n = r.name THEN <<i, ms[k].e>> ELSE ms[k].g[n]])] :
                  ms \in {Match(r.a, s, i, g)}})
      [] r.op = "nahead" ->
            IF i <= Len(s) /\ s[i] \in r.set THEN <<>> ELSE <<Found(i, g)>>
      [] r.op = "bol" -> IF i = 1 THEN <<Found(i, g)>> ELSE <<>>
      [] r.op = "eol" -> IF i = Len(s) + 1 THEN <<Found(i, g)>> ELSE <<>>
      [] r.op = "wb" ->
            IF is_word(s, i - 1) # is_word(s, i) THEN <<Found(i, g)>> ELSE <<>>

\* The matches of the rest of a sequence after each match of its head.
match_rest(ms, parts, s, k) ==
    IF k > Len(ms) THEN <<>>
    ELSE match_cat(parts, s, ms[k].e, ms[k].g) \o match_rest(ms, parts, s, k + 1)

match_cat(parts, s, i, g) ==
    IF parts = <<>> THEN <<Found(i, g)>>
    ELSE Only({match_rest(ms, Tail(parts), s, 1) :
               ms \in {Match(Head(parts), s, i, g)}})

match_alt(parts, s, i, g) ==
    IF parts = <<>> THEN <<>>
    ELSE Match(Head(parts), s, i, g) \o match_alt(Tail(parts), s, i, g)

\* The matches of a* that begin with one of the matches ms of a, longest
\* repetition first; a match of nothing is not repeated.
match_star(ms, r, s, i) ==
    IF ms = <<>> THEN <<>>
    ELSE (IF Head(ms).e > i THEN Match(r, s, Head(ms).e, Head(ms).g) ELSE <<>>)
         \o match_star(Tail(ms), r, s, i)

NoMatch == [found |-> FALSE, start |-> 0, end |-> 0, g |-> NoGroups]

\* re.match(r, s) at the index i
match_at(r, s, i) ==
    Only({IF ms = <<>> THEN NoMatch
          ELSE [found |-> TRUE, start |-> i, end |-> ms[1].e, g |-> ms[1].g] :
          ms \in {Match(r, s, i, NoGroups)}})

\* re.search(r, s) from the index i on
RECURSIVE search_from(_, _, _)
search_from(r, s, i) ==
    IF i > Len(s) + 1 THEN NoMatch
    ELSE Only({IF m.found THEN m ELSE search_from(r, s, i + 1) :
               m \in {match_at(r, s, i)}})

search(r, s) == search_from(r, s, 1)

\* m.group(name): the text of a group, None when it took no part
group(s, m, name) ==
    IF name \in DOMAIN m.g THEN SubSeq(s, m.g[name][1], m.g[name][2] - 1) ELSE None

\* m.group(0)
group0(s, m) == SubSeq(s, m.start, m.end - 1)

\* ------------------------------------------------------ _clean_food_name
upper(c) ==
    IF \E a \in Alpha : a # c /\ lower(a) = c
    THEN CHOOSE a \in Alpha : a # c /\ lower(a) = c
    ELSE c

\* text[0].upper() + text[1:]
capitalize(text) == <<upper(Head(text))>> \o Tail(text)

\* \d+(?:\.\d+)?
Number == Cat(<<Plus(Chr(Digits)), Opt(Cat(<<Chr({"."}), Plus(Chr(Digits))>>))>>)

\* \s*
Spaces == Star(Chr(Blank))

\* (?:g|kg|ml|l|cl)
WeightUnits == Words(<<<<"g">>, <<"k", "g">>, <<"m", "l">>, <<"l">>,
                       <<"c", "l">>>>)

\* (?:g|kg|ml|l|cl|tsp|tbsp|cup|cups|oz|lb|lbs)
LeadingUnits ==
    Words(<<<<"g">>, <<"k", "g">>, <<"m", "l">>, <<"l">>, <<"c", "l">>,
            <<"t", "s", "p">>, <<"t", "b", "s", "p">>, <<"c", "u", "p">>,
            <<"c", "u", "p", "s">>, <<"o", "z">>, <<"l", "b">>,
            <<"l", "b", "s">>>>)

\* (?:g|kg|ml|l|cl|tsp|tbsp|cup|cups|oz|lb|lbs|litre|liter|cm|mm|inch|inches)
MeasureUnits ==
    Words(<<<<"g">>, <<"k", "g">>, <<"m", "l">>, <<"l">>, <<"c", "l">>,
            <<"t", "s", "p">>, <<"t", "b", "s", "p">>, <<"c", "u", "p">>,
            <<"c", "u", "p", "s">>, <<"o", "z">>, <<"l", "b">>,
            <<"l", "b", "s">>, <<"l", "i", "t", "r", "e">>,
            <<"l", "i", "t", "e", "r">>, <<"c", "m">>, <<"m", "m">>,
            <<"i", "n", "c", "h">>, <<"i", "n", "c", "h", "e", "s">>>>)

\* (?:g|kg|ml|l|cl|oz|lb|lbs|litre|liter)
SizeUnits ==
    Words(<<<<"g">>, <<"k", "g">>, <<"m", "l">>, <<"l">>, <<"c", "l">>,
            <<"o", "z">>, <<"l", "b">>, <<"l", "b", "s">>,
            <<"l", "i", "t", "r", "e">>, <<"l", "i", "t", "e", "r">>>>)

\* (?:pack|packs|...|piece|pieces)
PackNouns ==
    Words(<<<<"p", "a", "c", "k">>, <<"p", "a", "c", "k", "s">>,
            <<"p", "a", "c", "k", "e", "t">>,
            <<"p", "a", "c", "k", "e", "t", "s">>, <<"b", "a", "g">>,
            <<"b", "a", "g", "s">>, <<"p", "o", "t">>, <<"p", "o", "t", "s">>,
            <<"t", "u", "b">>, <<"t", "u", "b", "s">>,
            <<"p", "o", "u", "c", "h">>, <<"p", "o", "u", "c", "h", "e", "s">>,
            <<"t", "r", "a", "y">>, <<"t", "r", "a", "y", "s">>,
            <<"t", "i", "n">>, <<"t", "i", "n", "s">>, <<"c", "a", "n">>,
            <<"c", "a", "n", "s">>, <<"p", "c">>, <<"p", "c", "s">>,
            <<"p", "i", "e", "c", "e">>, <<"p", "i", "e", "c", "e", "s">>>>)

fish_keywords ==
    {<<"s", "a", "l", "m", "o", "n">>, <<"h", "a", "d", "d", "o", "c", "k">>,
     <<"c", "o", "d">>, <<"t", "r", "o", "u", "t">>,
     <<"s", "e", "a", "b", "a", "s", "s">>,
     <<"s", "e", "a", " ", "b", "a", "s", "s">>, <<"b", "a", "s", "s">>,
     <<"h", "a", "k", "e">>, <<"t", "u", "n", "a">>,
     <<"p", "r", "a", "w", "n">>, <<"p", "r", "a", "w", "n", "s">>,
     <<"s", "h", "r", "i", "m", "p">>}

meat_keywords ==
    {<<"c", "h", "i", "c", "k", "e", "n">>, <<"t", "u", "r", "k", "e", "y">>,
     <<"d", "u", "c", "k">>, <<"b", "e", "e", "f">>, <<"p", "o", "r", "k">>,
     <<"l", "a", "m", "b">>, <<"m", "e", "a", "t", "b", "a", "l", "l">>,
     <<"s", "a", "u", "s", "a", "g", "e">>}

\* \b(fillet|fillets|breast|thigh|steak|loin)\b
protein_pattern ==
    Cat(<<WordB,
          Words(<<<<"f", "i", "l", "l", "e", "t">>,
                  <<"f", "i", "l", "l", "e", "t", "s">>,
                  <<"b", "r", "e", "a", "s", "t">>,
                  <<"t", "h", "i", "g", "h">>, <<"s", "t", "e", "a", "k">>,
                  <<"l", "o", "i", "n">>>>),
          WordB>>)

\* (?P<count>\d+(?:\.\d+)?)\s*[x]\s*(?P<weight>\d+(?:\.\d+)?\s*(?:g|kg|ml|l|cl))
count_weight_pattern ==
    Cat(<<Group("count", Number), Spaces, Chr(XChars), Spaces,
          Group("weight", Cat(<<Number, Spaces, WeightUnits>>))>>)

\* (?P<weight>\d+(?:\.\d+)?\s*(?:g|kg|ml|l|cl))\b
weight_only_pattern ==
    Cat(<<Group("weight", Cat(<<Number, Spaces, WeightUnits>>)), WordB>>)

\* \(\s*\d+(?:\.\d+)?\s*(?:g|kg|ml|l|cl|oz|lb|lbs|litre|liter)\s*\)
size_pattern ==
    Cat(<<Chr({"("}), Spaces, Number, Spaces, SizeUnits, Spaces, Chr({")"})>>)

\* \b(tin|tins|can|cans)\b
tin_or_can_pattern ==
    Cat(<<WordB, Words(<<<<"t", "i", "n">>, <<"t", "i", "n", "s">>,
                              <<"c", "a", "n">>, <<"c", "a", "n", "s">>>>), WordB>>)

\* ^[0-9]+(?:\.\d+)?\s*[x]\s*[0-9]+(?:\.\d+)?\s*(?:g|...|lbs)?\s*
leading_pack_pattern ==
    Cat(<<Bol, Number, Spaces, Chr(XChars), Spaces, Number, Spaces,
          Opt(LeadingUnits), Spaces>>)

\* ^[0-9]+(?:\.\d+|/[0-9]+)?(?:\s*(?:g|...|lbs)(?![a-zA-Z]))?\s*(?:x\s*)?
leading_quantity_pattern ==
    Cat(<<Bol, Plus(Chr(Digits)),
          Opt(Alt(<<Cat(<<Chr({"."}), Plus(Chr(Digits))>>),
                    Cat(<<Chr({"/"}), Plus(Chr(Digits))>>)>>)),
          Opt(Cat(<<Spaces, LeadingUnits, NotAhead(Alpha)>>)),
          Spaces,
          Opt(Cat(<<AnyCase("x"), Spaces>>))>>)

\* \s*[x]\s*\d+(?:\.\d+)?\s*$
trailing_multiplier_pattern ==
    Cat(<<Spaces, Chr(XChars), Spaces, Number, Spaces, Eol>>)

\* \(([^)]*)\)
parenthetical_pattern ==
    Cat(<<Chr({"("}), Group("1", Star(NotChr({")"}))), Chr({")"})>>)

\* ^\d+(?:\.\d+)?(?:\s*/\s*\d+(?:\.\d+)?)?\s*(?:g|...|inches)\b
measure_content_pattern ==
    Cat(<<Bol, Number, Opt(Cat(<<Spaces, Chr({"/"}), Spaces, Number>>)), Spaces,
          MeasureUnits, WordB>>)

\* ^\d+(?:\.\d+)?\s*[x]\s*\d+
times_content_pattern ==
    Cat(<<Bol, Number, Spaces, Chr(XChars), Spaces, Plus(Chr(Digits))>>)

\* ^\d+(?:\.\d+)?\s*(?:pack|...|pieces)\b
pack_content_pattern == Cat(<<Bol, Number, Spaces, PackNouns, WordB>>)

\* ^\d+(?:\.\d+)?\s*$
number_content_pattern == Cat(<<Bol, Number, Spaces, Eol>>)

\* \b(sachet|sachets|...|tray|trays)\b\.?$
trailing_packaging_pattern ==
    Cat(<<WordB,
          Words(<<<<"s", "a", "c", "h", "e", "t">>,
                  <<"s", "a", "c", "h", "e", "t", "s">>,
                  <<"p", "a", "c", "k", "e", "t">>,
                  <<"p", "a", "c", "k", "e", "t", "s">>,
                  <<"p", "a", "c", "k">>, <<"p", "a", "c", "k", "s">>,
                  <<"b", "a", "g">>, <<"b", "a", "g", "s">>, <<"p", "o", "t">>,
                  <<"p", "o", "t", "s">>, <<"t", "u", "b">>,
                  <<"t", "u", "b", "s">>, <<"p", "o", "u", "c", "h">>,
                  <<"p", "o", "u", "c", "h", "e", "s">>,
                  <<"t", "r", "a", "y">>, <<"t", "r", "a", "y", "s">>>>),
          WordB, Opt(Chr({"."})), Eol>>)

\* ^(?:\d+(?:\.\d+)?(?:\s*/\s*\d+(?:\.\d+)?)?
\*    (?:\s*(?:g|...|inches)(?![a-zA-Z]))?(?:\s*[x]\s*)?)
leading_token_pattern ==
    Cat(<<Bol, Number, Opt(Cat(<<Spaces, Chr({"/"}), Spaces, Number>>)),
          Opt(Cat(<<Spaces, MeasureUnits, NotAhead(Alpha)>>)),
          Opt(Cat(<<Spaces, Chr(XChars), Spaces>>))>>)

\* any(k in text.lower() for k in keywords)
mentions(text, keywords) == \E k \in keywords : has_sub(lower_str(text), k)

\* The text without the match m
without(text, m) ==
    SubSeq(text, 1, m.start - 1) \o SubSeq(text, m.end, Len(text))

\* re.sub(r, "", text).strip() for a pattern that matches once at most (it
\* holds ^ or $ and never matches the empty string)
sub_once(r, text) ==
    Only({IF m.found THEN strip(without(text, m)) ELSE strip(text) :
          m \in {search(r, text)}})

\* _strip_packaging_parenthetical: whether the parenthetical of the match is
\* dropped.
strip_packaging_parenthetical(text, m) ==
    Only({\/ content = <<>>
          \/ match_at(measure_content_pattern, content, 1).found
          \/ match_at(times_content_pattern, content, 1).found
          \/ match_at(pack_content_pattern, content, 1).found
          \/ match_at(number_content_pattern, content, 1).found :
          content \in {lower_str(strip(group(text, m, "1")))}})

\* re.sub(r"\(([^)]*)\)", _strip_packaging_parenthetical, text) from the
\* index i on
RECURSIVE sub_parentheticals(_, _)
sub_parentheticals(text, i) ==
    Only({IF ~m.found THEN SubSeq(text, i, Len(text))
          ELSE SubSeq(text, i, m.start - 1)
               \o (IF strip_packaging_parenthetical(text, m) THEN <<>>
                   ELSE group0(text, m))
               \o sub_parentheticals(text, m.end) :
          m \in {search_from(parenthetical_pattern, text, i)}})

\* The while loop: leading quantity and unit tokens are dropped until none
\* is left.
RECURSIVE strip_leading_tokens(_)
strip_leading_tokens(text) ==
    Only({IF new_text = text THEN text ELSE strip_leading_tokens(new_text) :
          new_text \in {sub_once(leading_token_pattern, text)}})

\* re.sub(r"\s+", " ", text)
RECURSIVE collapse_spaces(_)
collapse_spaces(text) ==
    IF text = <<>> THEN <<>>
    ELSE IF Head(text) \in Blank
         THEN <<" ">> \o collapse_spaces(SubSeq(text, run_end(text, 1, Blank),
                                              Len(text)))
         ELSE <<Head(text)>> \o collapse_spaces(Tail(text))

\* The pack prefix of a text that count_weight_match matched, and the text
\* without the match.
count_weight_prefix(text, cw) ==
    Only({[text |-> remainder,
           packaging_prefix |->
               IF /\ mentions(remainder, fish_keywords)
                  /\ search(protein_pattern, remainder).found
               THEN strip(group(text, cw, "weight"))
               ELSE IF \/ mentions(remainder, meat_keywords)
                       \/ search(protein_pattern, remainder).found
                    THEN rstrip(group(text, cw, "count")) \o <<" ", "x", " ">>
                         \o strip(group(text, cw, "weight"))
                    ELSE None] :
          remainder \in {strip(without(text, cw))}})

\* The pack prefix of a text that weight_only_match matched, and the text
\* without the match.
weight_only_prefix(text, wo) ==
    Only({[text |-> remaining,
           packaging_prefix |->
               IF /\ mentions(remaining, fish_keywords)
                  /\ search(protein_pattern, remaining).found
               THEN strip(group(text, wo, "weight"))
               ELSE None] :
          remaining \in {strip(SubSeq(text, wo.end, Len(text)))}})

\* The pack prefix of the text and the text without it.
pack_prefix(text) ==
    Only({IF cw.found THEN count_weight_prefix(text, cw)
          ELSE Only({IF wo.found THEN weight_only_prefix(text, wo)
                     ELSE [text |-> text, packaging_prefix |-> None] :
                     wo \in {match_at(weight_only_pattern, text, 1)}}) :
          cw \in {search(count_weight_pattern, text)}})

\* The size parenthetical that is appended again: the one the text holds,
\* when the text names a tin or a can; None otherwise.
size_to_append(text) ==
    Only({IF m.found /\ search(tin_or_can_pattern, text).found
          THEN strip(group0(text, m))
          ELSE None :
          m \in {search(size_pattern, text)}})

\* The successive re.sub calls on the text.
strip_leading_pack(text) == sub_once(leading_pack_pattern, text)

strip_leading_quantity(text) ==
    Only({sub_once(leading_quantity_pattern, t) : t \in {strip_leading_pack(text)}})

strip_trailing_multiplier(text) ==
    Only({sub_once(trailing_multiplier_pattern, t) :
          t \in {strip_leading_quantity(text)}})

strip_parentheticals(text) ==
    Only({strip(sub_parentheticals(t, 1)) : t \in {strip_trailing_multiplier(text)}})

strip_trailing_packaging(text) ==
    Only({sub_once(trailing_packaging_pattern, t) :
          t \in {strip_parentheticals(text)}})

core_name(text) ==
    Only({collapse_spaces(strip_leading_tokens(t)) :
          t \in {strip_trailing_packaging(text)}})

\* The text with the size parenthetical and the pack prefix attached again.
attach(text, size_parenthetical, packaging_prefix) ==
    Only({IF packaging_prefix # None
          THEN strip(packaging_prefix \o <<" ">> \o t)
          ELSE t :
          t \in {IF /\ size_parenthetical # None
                    /\ ~has_sub(lower_str(text), lower_str(size_parenthetical))
                 THEN strip(text \o <<" ">> \o size_parenthetical)
                 ELSE text}})

\* _clean_food_name(raw_name, label)
clean_food_name(raw_name, label) ==
    Only({IF p.text = <<>> THEN None
          ELSE Only({IF text # <<>> THEN capitalize(text)
                     ELSE IF strip(raw_name) # <<>>
                          THEN capitalize(strip(raw_name))
                          ELSE None :
                     text \in {Only({attach(core, size_to_append(p.text),
                                            p.packaging_prefix) :
                                     core \in {core_name(p.text)}})}}) :
          p \in {pack_prefix(strip(IF label # None THEN label ELSE raw_name))}})

\* The fields _units_compatible compares.
UnitFields == {"name", "abbreviation", "pluralName", "pluralAbbreviation"}

\* Faulty variant: a unit with an id and one without are compared by their
\* fields
units_compatible_by_fields(ua, ub) ==
    IF ua = Absent /\ ub = Absent THEN TRUE
    ELSE IF ua = Absent \/ ub = Absent THEN FALSE
    ELSE IF ua.id # 0 /\ ub.id # 0 THEN ua.id = ub.id
    ELSE \E f \in UnitFields :
            /\ unit_key(ua[f]) # None
            /\ unit_key(ub[f]) # None
            /\ unit_key(ua[f]) = unit_key(ub[f])

\* _units_compatible(unit_a, unit_b); Absent stands for None.
units_compatible(ua, ub) ==
    IF ua = Absent /\ ub = Absent THEN TRUE
    ELSE IF ua = Absent \/ ub = Absent THEN FALSE
    ELSE IF ua.id # 0 /\ ub.id # 0 THEN ua.id = ub.id
    ELSE IF ua.id # 0 \/ ub.id # 0 THEN FALSE
    ELSE \E f \in UnitFields :
            /\ unit_key(ua[f]) # None
            /\ unit_key(ub[f]) # None
            /\ unit_key(ua[f]) = unit_key(ub[f])

\* raw_label_multiplier is not None and raw_label_multiplier > 0
positive(q) == q # NoQty /\ q.n > 0

\* Faulty variant: the label multiplier and the SKU count are both applied
item_quantity_both(parsed_qty, raw_label_multiplier, sku_qty) ==
    LET label_multiplier ==
            IF positive(raw_label_multiplier) THEN raw_label_multiplier ELSE NoQty
        base_qty ==
            IF parsed_qty = NoQty /\ (label_multiplier # NoQty \/ sku_qty # NoQty)
            THEN RatOfInt(1) ELSE parsed_qty
        by_label ==
            IF label_multiplier # NoQty THEN RatMul(base_qty, label_multiplier)
            ELSE base_qty
    IN IF base_qty = NoQty THEN NoQty
       ELSE IF sku_qty # NoQty THEN RatMul(by_label, sku_qty)
       ELSE by_label

\* The quantity of an item from the amount of its label, the multiplier of
\* its label and the in_box count of its SKU.
item_quantity(parsed_qty, raw_label_multiplier, sku_qty) ==
    LET label_multiplier ==
            IF positive(raw_label_multiplier) THEN raw_label_multiplier ELSE NoQty
        sku_qty_effective ==
            IF positive(raw_label_multiplier)
            THEN (IF sku_qty # NoQty THEN RatOfInt(1) ELSE NoQty)
            ELSE sku_qty
        base_qty ==
            IF parsed_qty = NoQty
                /\ (label_multiplier # NoQty \/ sku_qty_effective # NoQty)
            THEN RatOfInt(1) ELSE parsed_qty
        by_label ==
            IF label_multiplier # NoQty THEN RatMul(base_qty, label_multiplier)
            ELSE base_qty
    IN IF base_qty = NoQty THEN NoQty
       ELSE IF sku_qty_effective # NoQty THEN RatMul(by_label, sku_qty_effective)
       ELSE by_label

\* Faulty variant: the merged entry takes the quantity of the later item
merge_quantity_replacing(existing_qty, quantity) ==
    IF quantity = NoQty THEN existing_qty ELSE quantity

\* existing["quantity"] after a merge: unchanged when the later item has no
\* quantity, else the sum, an absent quantity counting as 0.0.
merge_quantity(existing_qty, quantity) ==
    IF quantity = NoQty THEN existing_qty
    ELSE RatAdd(IF existing_qty # NoQty THEN existing_qty ELSE RatOfInt(0),
                quantity)

\* Faulty variant: only the entry appended last is looked at
merge_target_latest(ingredients, key, unit) ==
    IF key = None \/ ingredients = <<>> THEN 0
    ELSE IF /\ ingredients[Len(ingredients)].key = key
            /\ units_compatible(ingredients[Len(ingredients)].unit, unit)
         THEN Len(ingredients)
         ELSE 0

\* The first entry of ingredients_by_key[key] whose unit is compatible, as its
\* index in recipe_ingredients; 0 when there is none. Every entry is listed
\* under its key in the order of recipe_ingredients.
merge_target(ingredients, key, unit) ==
    IF key = None THEN 0
    ELSE first_index({k \in DOMAIN ingredients :
                        /\ ingredients[k].key = key
                        /\ units_compatible(ingredients[k].unit, unit)})

\* ensure_food(name) when the remote answers every request: the cached food,
\* or the food the remote creates.
food_for(foods, name) ==
    LET cached == cache_lookup(foods, lookup_keys("foods", name))
    IN IF cached # Absent THEN cached ELSE created_entity("foods", name)

\* The ingredient name mappings: load_ingredient_map finds no file.
INGREDIENT_MAP == [name \in {} |-> None]

INGREDIENT_MAP_BY_KEY == [key \in {} |-> None]

map_ingredient_name(name) ==
    IF name = None THEN None
    ELSE IF name \in DOMAIN INGREDIENT_MAP THEN INGREDIENT_MAP[name]
    ELSE IF food_key(name) \in DOMAIN INGREDIENT_MAP_BY_KEY
         THEN INGREDIENT_MAP_BY_KEY[food_key(name)]
         ELSE name

\* ingredient_label_and_name(item); the items hold no title.
ingredient_label_and_name(item) ==
    Only({[label |-> IF item.label # None THEN item.label ELSE raw_name,
           name |-> map_ingredient_name(
                        clean_food_name(raw_name,
                                        IF item.label # None THEN item.label
                                        ELSE raw_name))] :
          raw_name \in {IF item.name # None THEN item.name ELSE item.label}})

\* An element of ordered_items: the label and the name of the ingredient, and
\* the in_box count of the SKU matched to it (NoQty: no SKU, or a SKU without
\* the count).
Item(label, name, in_box) == [label |-> label, name |-> name, in_box |-> in_box]

Items ==
    {Item(LChickenX2, None, RatOfInt(3)),
     Item(LOnionX2, None, RatOfInt(3)),
     Item(LOnionX2, None, NoQty),
     Item(LOnionX0, None, RatOfInt(3)),
     Item(LOnionHalfX, None, NoQty),
     Item(LOnion, None, RatOfInt(2)),
     Item(LOnion, None, RatOfInt(0)),
     Item(LOnion, None, NoQty),
     Item(LFlour100, None, RatOfInt(3)),
     Item(LFlour50, None, NoQty),
     Item(LFlour, None, NoQty),
     Item(LHalfOnion, None, NoQty),
     Item(LZeroDenom, None, NoQty),
     Item(LMinusOnions, None, NoQty),
     Item(LLemon, None, RatOfInt(2)),
     Item(LSalt, None, NoQty),
     Item(LMilk, None, NoQty),
     Item(LTinTomatoes, None, NoQty),
     Item(None, None, NoQty)}

Gram == <<"g", "r", "a", "m">>

Teaspoon == <<"t", "e", "a", "s", "p", "o", "o", "n">>

\* The unit collections of the remote the builder is run with: gram and
\* teaspoon, or a gram the remote lists without an id.
UnitLists ==
    {<<UnitEntity(3, Gram, Gram \o <<"s">>, <<"g">>, None),
       UnitEntity(5, Teaspoon, None, <<"t", "s", "p">>, None)>>,
     <<UnitEntity(0, Gram, None, <<"g">>, None)>>}

\* The units _units_compatible is applied to.
Units ==
    {Absent,
     UnitEntity(3, Gram, Gram \o <<"s">>, <<"g">>, None),
     UnitEntity(3, <<"G">>, None, None, None),
     UnitEntity(5, Teaspoon, None, <<"t", "s", "p">>, None),
     UnitEntity(5, Gram, None, None, None),
     UnitEntity(0, Gram, None, None, None),
     UnitEntity(0, <<"G", "r", "a", "m", " ">>, None, <<"g">>, None),
     UnitEntity(0, <<"g">>, None, Gram, None),
     UnitEntity(0, <<"c", "u", "p">>, Gram \o <<"s">>, None, <<"c">>),
     UnitEntity(0, <<"m", "u", "g">>, None, None, <<"c">>)}

\* An ingredient of the entry: its label, its code and its uid.
Ingredient(label, code, uid) ==
    [label |-> label, name |-> None, code |-> code, uid |-> uid]

\* A SKU of the portion size: its code, its id and its in_box count.
Sku(code, id, in_box) == [code |-> code, id |-> id, in_box |-> in_box]

NoItem == Ingredient(None, None, None)

\* _ingredient_code(itm); the items hold no title.
ingredient_code(itm) == IF itm.code # None THEN code_key(itm.code) ELSE None

\* code_to_item: the first item of each code, and the last item of each uid.
RECURSIVE code_index(_, _)
code_index(items, code_to_item) ==
    IF items = <<>> THEN code_to_item
    ELSE Only({code_index(Tail(items),
                          IF Head(items).uid # None
                          THEN dict_put(by_code, code_key(Head(items).uid),
                                        Head(items))
                          ELSE by_code) :
               by_code \in {IF /\ ingredient_code(Head(items)) # None
                               /\ ingredient_code(Head(items))
                                     \notin DOMAIN code_to_item
                            THEN dict_put(code_to_item,
                                          ingredient_code(Head(items)),
                                          Head(items))
                            ELSE code_to_item}})

\* Faulty variant: the id of the SKU is not tried
match_sku_by_code(code_to_item, sku) ==
    IF code_key(sku.code) \in DOMAIN code_to_item
    THEN code_to_item[code_key(sku.code)]
    ELSE NoItem

\* code_to_item.get(code) or code_to_item.get(sku_id)
match_sku(code_to_item, sku) ==
    IF code_key(sku.code) \in DOMAIN code_to_item
    THEN code_to_item[code_key(sku.code)]
    ELSE IF code_key(sku.id) \in DOMAIN code_to_item
         THEN code_to_item[code_key(sku.id)]
         ELSE NoItem

\* "I-1", "I-2", "I-9", "u2", "u9"
CodeOne == <<"I", "-", "1">>

CodeTwo == <<"I", "-", "2">>

CodeNine == <<"I", "-", "9">>

UidTwo == <<"u", "2">>

UidNine == <<"u", "9">>

\* The ingredients of the entries the SKUs are matched to: an onion with a
\* code and flour with a uid; or two ingredients of one code, the second of
\* which has a uid as well.
IngredientLists ==
    {<<Ingredient(LOnion, CodeOne, None), Ingredient(LFlour100, None, UidTwo)>>,
     <<Ingredient(LOnion, CodeOne, None), Ingredient(LLemon, CodeOne, UidTwo),
       Ingredient(LMilk, CodeTwo, None)>>}

\* The SKUs of the portion sizes: one found by its code (in another case and
\* with blanks around it), one found by its id, one found by neither, and one
\* without code and id.
Skus ==
    {Sku(<<" ", "i", "-", "1">>, UidNine, RatOfInt(2)),
     Sku(CodeNine, <<"U", "2", " ">>, NoQty),
     Sku(CodeNine, UidNine, RatOfInt(3)),
     Sku(None, None, RatOfInt(1))}

\* The lists of at most MaxSkus SKUs.
SkuLists == UNION {[1..n -> Skus] : n \in 0..MaxSkus}

\* The lists of at most MaxItems items.
ItemLists == UNION {[1..n -> Items] : n \in 0..MaxItems}

\* One iteration of the loop of build_recipe_ingredients: the item is
\* skipped when it has no name; else its food is resolved, its label parsed,
\* its quantity computed, and it is merged into the first entry of its key
\* with a compatible unit, or appended.
\* if portion_skus: one iteration of the loop over the SKUs.  The SKU is
\* added to ordered_items with the ingredient it is matched to; one matched to
\* none is skipped with a warning.  After the last the loop over ordered_items
\* begins.
MatchSku ==
    /\ mpc = "skus"
    /\ sku_idx < Len(portion_skus)
    /\ sku_idx' = sku_idx + 1
    /\ mpc' = IF sku_idx + 1 = Len(portion_skus) THEN "build" ELSE "skus"
    /\ \E sku \in {portion_skus[sku_idx + 1]} :
       \E matched_item \in {match_sku(code_index(all_items, EmptyDict), sku)} :
         IF matched_item = NoItem
         THEN /\ warnings' = Append(warnings, SkuWarning(code_key(sku.code)))
              /\ ordered_items' = ordered_items
         ELSE /\ warnings' = warnings
              /\ ordered_items' =
                    Append(ordered_items,
                           Item(matched_item.label, matched_item.name,
                                sku.in_box))
    /\ UNCHANGED <<warnings_lock, posted, held, batch, workers, pk, attempt, paths, failed_paths, errors,
                   errors_local, failed, fut, results, th, cache, lock, remote,
                   recipes, faults, attempts, lastResult, returned, thread_local,
                   all_items, portion_skus, item_idx, recipe_ingredients, iter,
                   unit_a, unit_b, compatible>>

\* else: without SKUs ordered_items is all_items, no item with a SKU.
WithoutSkus ==
    /\ mpc = "skus"
    /\ portion_skus = <<>>
    /\ mpc' = "build"
    /\ ordered_items' =
          [i \in DOMAIN all_items |->
              Item(all_items[i].label, all_items[i].name, NoQty)]
    /\ UNCHANGED <<warnings_lock, posted, held, batch, workers, pk, attempt, paths, failed_paths, errors,
                   errors_local, failed, fut, results, th, cache, lock, remote,
                   recipes, faults, attempts, lastResult, returned, thread_local,
                   warnings, all_items, portion_skus, sku_idx, item_idx,
                   recipe_ingredients, iter, unit_a, unit_b, compatible>>

BuildItem ==
    /\ mpc = "build"
    /\ item_idx < Len(ordered_items)
    /\ item_idx' = item_idx + 1
    /\ \E item \in {ordered_items[item_idx + 1]} :
       \E named \in {ingredient_label_and_name(item)} :
         IF named.name = None
         THEN /\ iter' = NoIter
              /\ UNCHANGED <<recipe_ingredients, cache, remote, warnings>>
         ELSE \E label \in {IF named.label # None THEN named.label ELSE named.name},
                 key \in {food_key(named.name)},
                 food \in {food_for(cache.foods, named.name)} :
              \E parsed \in {parse_quantity_and_unit(label)},
                 raw_label_multiplier \in {extract_multiplier(label)} :
              \E quantity \in {item_quantity(parsed.qty, raw_label_multiplier,
                                             item.in_box)},
                 target \in {merge_target(recipe_ingredients, key, parsed.unit)} :
                /\ cache' = [cache EXCEPT !.foods =
                                put_keys(@, entity_keys("foods", food), food)]
                /\ warnings' = IF parsed.warned
                               THEN Append(warnings, UnitWarning(label))
                               ELSE warnings
                /\ remote' = IF food \in Range(remote.foods) THEN remote
                             ELSE [remote EXCEPT !.foods = Append(@, food)]
                /\ recipe_ingredients' =
                     IF target # 0
                     THEN [recipe_ingredients EXCEPT ![target].quantity =
                               merge_quantity(@, quantity)]
                     ELSE Append(recipe_ingredients,
                                 [text |-> label, food |-> food,
                                  quantity |-> quantity, unit |-> parsed.unit,
                                  key |-> key])
                /\ iter' = [label |-> label, name |-> named.name, key |-> key,
                            parsed_qty |-> parsed.qty, unit |-> parsed.unit,
                            raw_label_multiplier |-> raw_label_multiplier,
                            sku_qty |-> item.in_box, quantity |-> quantity,
                            merged |-> target # 0,
                            into |-> IF target # 0 THEN target
                                     ELSE Len(recipe_ingredients) + 1]
    /\ UNCHANGED <<warnings_lock, posted, batch, workers, mpc, pk, attempt, paths, failed_paths, errors,
                   errors_local, failed, fut, results, th, lock, recipes, faults,
                   attempts, lastResult, returned, thread_local, all_items,
                   portion_skus, sku_idx, ordered_items, unit_a, unit_b,
                   compatible>>
    /\ held' = keys_held(held, cache')

\* bool as the code returns it
bool_name(b) == IF b THEN "True" ELSE "False"

\* A call of _units_compatible(unit_a, unit_b).
CompareUnits ==
    /\ mpc = "compare"
    /\ compatible = "none"
    /\ compatible' = bool_name(units_compatible(unit_a, unit_b))
    /\ UNCHANGED <<warnings_lock, posted, held, batch, workers, mpc, pk, attempt, paths, failed_paths, errors,
                   errors_local, failed, fut, results, th, cache, lock, remote,
                   recipes, faults, attempts, lastResult, returned, thread_local,
                   warnings, all_items, portion_skus, sku_idx, ordered_items,
                   item_idx, recipe_ingredients, iter, unit_a, unit_b>>

\* The cache of a kind after load_existing_* has read the collection.
loaded(kind, list) == add_page(kind, EmptyDict, {}, list).acc

\* The builder and the unit comparison are run by themselves, after a
\* preload, on every list of at most MaxItems items and on every pair of
\* units.
BuildInit ==
    /\ batch = 1
    /\ workers = 1
    /\ pk = Len(PreloadOrder)
    /\ attempt = 0
    /\ paths = <<>>
    /\ failed_paths = <<>>
    /\ errors = <<>>
    /\ errors_local = <<>>
    /\ failed = <<>>
    /\ fut = <<>>
    /\ results = <<>>
    /\ th = [t \in Threads |-> IdleThread]
    /\ lock = NoThread
    /\ recipes = EmptyDict
    /\ faults = 0
    /\ attempts = [d \in DOMAIN recipe_files |-> 0]
    /\ lastResult = [d \in DOMAIN recipe_files |-> "none"]
    /\ returned = EmptyDict
    /\ posted = {}
    /\ held = [k \in Kinds |-> {}]
    /\ warnings_lock = NoThread
    /\ thread_local = [t \in 1..MaxWorkers |-> NoSession]
    /\ warnings = <<>>
    /\ sku_idx = 0
    /\ item_idx = 0
    /\ recipe_ingredients = <<>>
    /\ iter = NoIter
    /\ compatible = "none"
    /\ \E list \in UnitLists :
          /\ remote = [RemoteInit EXCEPT !.units = list]
          /\ cache = [k \in Kinds |-> loaded(k, remote[k])]
    /\ \/ /\ mpc = "build"
          /\ all_items = <<>>
          /\ portion_skus = <<>>
          /\ ordered_items \in ItemLists
          /\ unit_a = Absent
          /\ unit_b = Absent
       \/ /\ mpc = "skus"
          /\ all_items \in IngredientLists
          /\ portion_skus \in SkuLists
          /\ ordered_items = <<>>
          /\ unit_a = Absent
          /\ unit_b = Absent
       \/ /\ mpc = "compare"
          /\ all_items = <<>>
          /\ portion_skus = <<>>
          /\ ordered_items = <<>>
          /\ unit_a \in Units
          /\ unit_b \in Units

BuildNext == MatchSku \/ WithoutSkus \/ BuildItem \/ CompareUnits

BuildSpec == BuildInit /\ [][BuildNext]_vars

\* ------------------------------------------------------------------ claims
\* Every message of the pass in progress or of the last report.
Messages ==
    (Range(errors_local) \cup Range(errors)
        \cup {results[i][3] : i \in DOMAIN results}) \ {NoErr}

\* The document failed before the resolve stages for a reason the code
\* returns a message for: unreadable file, or no slug.
Structural(d) ==
    \/ entry(d).state = "unreadable"
    \/ entry(d).state = "ok" /\ slug_of(d) = None

\* The thread takes a step of the ensure_* lookup of a food.
FoodLookupStep(t) ==
    /\ th[t].pc = "lookup"
    /\ th[t].kind = "foods"
    /\ th'[t] # th[t]

\* C1: once ensure_food has returned an entity for a name, a later
\* ensure_food call for that name (one that starts after the return) returns
\* the same entity from the cache and goes on to no create request.
C1_SecondResolveHitsCache ==
    [][\A t \in Threads :
          (FoodLookupStep(t) /\ food_key(cur_name(t)) \in DOMAIN returned)
              => (th'[t].pc # "post" /\ returned' = returned)]_vars

\* C2: a create that the remote refuses with a conflict because it holds the
\* entity (409) never fails the document: after the reload the entity is
\* found and returned, so no message reports the failed create.
C2_ConflictReturnsExisting ==
    \A m \in Messages : m.text # "failed to create (409)"

\* C3 (as claimed): a create refused with 400/409 whose name is still absent
\* after the reload does not fail the document: ensure_* answers with the
\* create response.
C3_RefusedCreateNeverFails ==
    \A m \in Messages : m.text # "failed to create (400)"

\* The thread takes the step of the lookup after the reload and misses.
RelookupMiss(t) ==
    /\ th[t].pc = "relookup"
    /\ th'[t] # th[t]
    /\ cache_lookup(cache[th[t].kind], lookup_keys(th[t].kind, cur_name(t))) = Absent

\* C3 (amended): when a create is refused with 400/409 and the name is still
\* absent after the reload, ensure_* raises the error of the create: the
\* attempt on the document ends as failed at its resolve stage, the cache is
\* left as the reload wrote it, and nothing is returned for the name.  Only a
\* created entity (200/201) is entered into the cache, so every cached entity
\* is one the remote holds.
C3_RefusedCreateStillAbsentRaises ==
    /\ [][\A t \in Threads :
             RelookupMiss(t)
                 => /\ cache' = cache
                    /\ returned' = returned
                    /\ th'[t].pc = "idle"
                    /\ lastResult'[th[t].path] = "fail"
                    /\ \E m \in (Range(errors_local') \cup
                                 {results'[i][3] : i \in DOMAIN results'}) :
                          /\ m.path = th[t].path
                          /\ m.stage = StageOf(th[t].kind)
                          /\ m.text = FailedToCreate(th[t].resp)]_vars
    /\ [](\A k \in Kinds : \A key \in DOMAIN cache[k] :
             cache[k][key] \in Range(remote[k]))

C3_Witness ==
    \E m \in Messages :
        m.text = "failed to create (400)" /\ m.stage = "resolve ingredients"

\* A lookup step of ensure_* (before the create, or after the reload).
LookupStep(t) ==
    /\ th[t].pc \in {"lookup", "relookup"}
    /\ th'[t] # th[t]

\* C4: every write of a cache is made by the thread that holds CACHE_LOCK:
\* the thread between the clear and the update of a reload owns the lock, at
\* most one thread is there, the caches change only in steps of the thread
\* that could enter the lock, and no lookup is made while another thread is
\* between its clear and its update.
C4_CacheWritesSerialized ==
    /\ [](\A t \in Threads : th[t].pc = "load_update" => lock = t)
    /\ [](Cardinality({t \in Threads : th[t].pc = "load_update"}) <= 1)
    /\ [][cache' # cache =>
             \E t \in Threads :
                 /\ th'[t] # th[t]
                 /\ lock \in {NoThread, t}
                 /\ lock' \in {NoThread, t}]_vars
    /\ [][\A t \in Threads :
             LookupStep(t) => \A u \in Threads \ {t} : th[u].pc # "load_update"]_vars

\* A pool thread is between the clear and the update of a reload while
\* another pool thread waits to look a name up.
C4_Witness ==
    \E t, u \in 1..MaxWorkers :
        /\ t # u
        /\ th[t].pc = "load_update"
        /\ th[u].pc \in {"lookup", "relookup", "insert", "load_clear"}

\* The cache of a kind holds every key of the entities the catalog held when
\* the run started.
Preloaded(kind) ==
    \A j \in DOMAIN RemoteInit[kind] :
        \A key \in Range(entity_keys(kind, RemoteInit[kind][j])) \ {None} :
            dict_get(cache[kind], key) = RemoteInit[kind][j]

\* C5: the first document is started only after the four preloads have
\* succeeded (each cache then holds the catalog's entities); a failed preload
\* request ends the run with no document started.
C5_PreloadBeforeDocuments ==
    /\ (mpc = "start" => \A kind \in Kinds : Preloaded(kind))
    /\ ((\E d \in DOMAIN recipe_files : attempts[d] > 0)
            => mpc \notin {"preload", "start", "aborted"} /\ pk = Len(PreloadOrder))
    /\ (mpc = "aborted" =>
            /\ \A d \in DOMAIN recipe_files : attempts[d] = 0
            /\ \A t \in Threads : th[t].pc = "idle")
    /\ (mpc = "preload" => \A d \in DOMAIN recipe_files : attempts[d] = 0)

\* The preload of the foods failed after categories and units were loaded.
C5_Witness == mpc = "aborted" /\ pk = 3 /\ faults = 1

\* C6: at most 10 retry passes follow the first pass; a retry pass is only
\* started on a non-empty list of failed documents; the run goes to its
\* report only when no document is failed or the 10 retries are used up;
\* no document is attempted more than 1 + 10 times; and the run ends: the
\* number of steps it can still take is a natural number that every step
\* makes smaller.
C6_Safety ==
    /\ attempt \in 0..MaxRetries
    /\ \A d \in DOMAIN recipe_files : attempts[d] <= attempt + 1
    /\ (attempt >= 1 /\ mpc \in {"seq", "pool", "pool_raised", "returned"}
            => paths # <<>>)
    /\ (mpc \in {"report", "done"}
            => failed_paths = <<>> \/ attempt = MaxRetries)
    /\ (mpc \in {"report", "done"} /\ failed_paths # <<>>
            => \A i \in DOMAIN failed_paths :
                   \E m \in Range(errors) : m.path = failed_paths[i])

\* The kinds process_recipe_file resolves names of.
Resolving == {"categories", "foods", "tags"}

\* For every batch, the number of names each document resolves of each kind.
NameCount ==
    [b \in DOMAIN Batches |->
        [d \in DOMAIN Batches[b] |->
            [k \in Resolving |-> Len(entry_names(Batches[b][d], k))]]]

RECURSIVE names_in(_, _, _)
names_in(b, kind, ds) ==
    IF ds = {} THEN 0
    ELSE LET d == CHOOSE x \in ds : TRUE
         IN NameCount[b][d][kind] + names_in(b, kind, ds \ {d})

\* A bound on the entities the catalog can hold of a kind: those it starts
\* with and one for each name a document resolves.
RemoteBound ==
    [b \in DOMAIN Batches |->
        [k \in Kinds |->
            Len(RemoteInit[k])
                + (IF k \in Resolving THEN names_in(b, k, DOMAIN Batches[b]) ELSE 0)]]

\* A bound on the pages one load_existing call fetches.
PageBoundOf ==
    [b \in DOMAIN Batches |->
        LET most == CHOOSE n \in {RemoteBound[b][k] : k \in Kinds} :
                        \A k \in Kinds : RemoteBound[b][k] <= n
        IN (most \div PerPage) + 1]

PageBound == PageBoundOf[batch]

\* The steps one ensure_* call can take, at most.
EnsureCost == PageBound + 6

\* The steps of process_recipe_file from the first fetch_recipe on.
TailCost(d) == 2 * Len(entry(d).assets) + 8

DocCostOf ==
    [b \in DOMAIN Batches |->
        [d \in DOMAIN Batches[b] |->
            (NameCount[b][d]["categories"] + NameCount[b][d]["foods"]
                + NameCount[b][d]["tags"]) * (PageBoundOf[b] + 6)
            + 2 * Len(Batches[b][d].unmatched)
            + 2 * Len(Batches[b][d].assets) + 9]]

DocCost(d) == DocCostOf[batch][d]

DocMaxOf ==
    [b \in DOMAIN Batches |->
        CHOOSE n \in {DocCostOf[b][d] : d \in DOMAIN Batches[b]} :
            \A d \in DOMAIN Batches[b] : DocCostOf[b][d] <= n]

DocMax == DocMaxOf[batch]

PassCost == Len(recipe_files) * (DocMax + 1) + 3

RECURSIVE names_after(_, _)
names_after(d, ks) ==
    IF ks = <<>> THEN 0
    ELSE NameCount[batch][d][Head(ks)] + names_after(d, Tail(ks))

\* The steps the thread has left in its document (or in the preload).
ThreadRank(t) ==
    LET r == th[t]
        d == r.path
        a == Len(entry(d).assets)
        rest == IF d = 0
                THEN (Len(PreloadOrder) - pk) * EnsureCost
                ELSE ((NameCount[batch][d][r.kind] - r.i)
                         + names_after(d, KindsAfter(r.kind))) * EnsureCost
                     + (IF r.kind = "categories"
                        THEN 2 * Len(entry(d).unmatched) ELSE 0)
                     + TailCost(d)
        from_foods == (NameCount[batch][d]["foods"]
                          + names_after(d, KindsAfter("foods"))) * EnsureCost
                      + TailCost(d)
    IN CASE r.pc = "idle" -> 0
         [] r.pc = "read" -> DocCost(d)
         [] r.pc = "warn" ->
                from_foods + 2 * (Len(entry(d).unmatched) - r.i) + 2
         [] r.pc = "warn_append" ->
                from_foods + 2 * (Len(entry(d).unmatched) - r.i) + 1
         [] r.pc = "lookup" -> rest + EnsureCost
         [] r.pc = "post" -> rest + EnsureCost - 1
         [] r.pc = "load_fetch" -> rest + 4 + PageBound - r.page
         [] r.pc = "load_clear" -> rest + 3
         [] r.pc = "load_update" -> rest + 2
         [] r.pc \in {"relookup", "insert"} -> rest + 1
         [] r.pc = "fetch" -> 2 * a + 8
         [] r.pc = "create" -> 2 * a + 7
         [] r.pc = "fetch2" -> 2 * a + 6
         [] r.pc = "update" -> 2 * a + 5
         [] r.pc = "image" -> 2 * a + 4
         [] r.pc = "asset_check" -> 2 * (a - r.i) + 3
         [] r.pc = "asset_upload" -> 2 * (a - r.i) + 2
         [] r.pc = "return" -> 1

RECURSIVE threads_rank(_)
threads_rank(ts) ==
    IF ts = {} THEN 0
    ELSE LET t == CHOOSE x \in ts : TRUE
         IN ThreadRank(t) + threads_rank(ts \ {t})

\* The steps main() has left apart from those of the documents in progress.
MainRank ==
    LET later == (MaxRetries - attempt) * PassCost
    IN CASE mpc = "preload" -> (MaxRetries + 1) * PassCost + 4
         [] mpc = "start" -> (MaxRetries + 1) * PassCost + 3
         [] mpc = "seq" -> later + (Len(paths) - th[0].idx) * (DocMax + 1) + 5
         [] mpc = "pool" -> later + Cardinality(Pending) * (DocMax + 1) + 5
         [] mpc = "pool_raised" -> later + Cardinality(Pending) * (DocMax + 1) + 4
         [] mpc = "returned" -> later + 3
         [] mpc = "report" -> 1
         [] OTHER -> 0

\* The steps the run can still take, at most.
Rank == MainRank + threads_rank(Threads)

C6_BoundedRetries ==
    /\ []C6_Safety
    /\ [](Rank \in Nat)
    /\ [][Rank' < Rank]_vars

\* The run ends after the tenth retry with a document still failed.
C6_Witness ==
    /\ mpc = "done"
    /\ attempt = MaxRetries
    /\ failed_paths # <<>>
    /\ \E d \in DOMAIN recipe_files : attempts[d] = MaxRetries + 1

\* The documents of the pass whose attempt failed, in the order of the pass.
FailedInPass == SelectSeq(paths, LAMBDA d : lastResult[d] = "fail")

\* C7: the paths of a retry pass are exactly the documents whose attempt
\* failed in the pass before, and no thread works on, or is queued, a
\* document whose latest attempt succeeded.
C7_RetryOnlyFailed ==
    /\ [][attempt' # attempt => paths' = FailedInPass]_vars
    /\ [](\A t \in Threads : th[t].path # 0 => lastResult[th[t].path] # "ok")
    /\ [](\A i \in DOMAIN fut :
             fut[i].st = "pending" => lastResult[paths[i]] # "ok")

\* A retry pass runs on fewer documents than the run has, one having
\* succeeded before.
C7_Witness ==
    /\ attempt >= 1
    /\ mpc \in {"seq", "pool"}
    /\ Len(paths) < Len(recipe_files)
    /\ \E d \in DOMAIN recipe_files : lastResult[d] = "ok"
    /\ \E t \in Threads : th[t].path # 0

\* C8: when the run reports, the errors list holds exactly one message for
\* each document whose latest attempt failed, that message is the one of the
\* latest attempt, and it holds no message for any other document.
C8_OneOutcomePerDocument ==
    mpc \in {"report", "done"} =>
        /\ \A d \in DOMAIN recipe_files :
              /\ lastResult[d] \in {"ok", "fail"}
              /\ Cardinality({i \in DOMAIN errors : errors[i].path = d})
                    = IF lastResult[d] = "fail" THEN 1 ELSE 0
        /\ \A i \in DOMAIN errors : errors[i].n = attempts[errors[i].path]

\* The run reports with a document that failed first and succeeded in a
\* retry, and another that is still failed.
C8_Witness ==
    /\ mpc = "done"
    /\ errors # <<>>
    /\ \E d \in DOMAIN recipe_files : lastResult[d] = "ok" /\ attempts[d] > 1

\* C9: no failure of a document stops the batch: every failure is caught in
\* process_recipe_file and becomes the document's message, so no exception
\* ever leaves it.
C9_FailureNeverStopsBatch ==
    /\ mpc \notin {"crashed", "pool_raised"}
    /\ \A d \in DOMAIN recipe_files : lastResult[d] # "raised"

\* C10: a document with a structural failure is failed in the read step: the
\* thread working on it issues no remote request and never leaves the read
\* step, its message names no stage, and the first pass over five documents
\* of which only the third fails, structurally, returns one failed path and
\* one message, the other four having succeeded.
C10_StructuralFailsEarly ==
    /\ \A t \in Threads :
          (th[t].path # 0 /\ Structural(th[t].path))
              => th[t].pc = "read" /\ ~th[t].touched
    /\ \A m \in Messages :
          Structural(m.path)
              => m.stage = "" /\ m.text \in {"failed to read", "canonical slug missing"}
    /\ \A d \in DOMAIN recipe_files :
          Structural(d) => lastResult[d] \in {"none", "fail"}
    /\ (/\ mpc = "returned"
        /\ attempt = 0
        /\ Len(paths) = 5
        /\ Structural(3)
        /\ \A d \in DOMAIN recipe_files : lastResult[d] = "fail" <=> d = 3)
            => /\ failed = <<3>>
               /\ Len(errors_local) = 1
               /\ errors_local[1].path = 3
               /\ Cardinality({d \in DOMAIN recipe_files : lastResult[d] = "ok"}) = 4

\* The first pass over five documents has returned: the third, unreadable,
\* failed and the other four succeeded.
C10_Witness ==
    /\ mpc = "returned"
    /\ attempt = 0
    /\ Len(paths) = 5
    /\ failed = <<3>>
    /\ Structural(3)
    /\ Cardinality({d \in DOMAIN recipe_files : lastResult[d] = "ok"}) = 4

\* C11: when the run has ended after its report, the exit status signals
\* failure (is not 0) exactly when a document is still failed.
C11_ExitStatusReflectsOutcome ==
    mpc = "done" => (exit_status # 0 <=> failed_paths # <<>>)

\* An iteration of the builder's loop has run on an item that has a name.
ItemBuilt == mpc = "build" /\ iter # NoIter

\* C12: an item whose label gives the base amount b and whose SKU gives the
\* count s gets the quantity b*m when its label has the positive multiplier
\* m (the count is not applied as well), and the quantity b*s when its label
\* has no multiplier.
C12_MultipliersNeverBothApplied ==
    (ItemBuilt /\ iter.parsed_qty # NoQty /\ iter.sku_qty # NoQty)
        => /\ positive(iter.raw_label_multiplier)
                => iter.quantity = RatMul(iter.parsed_qty, iter.raw_label_multiplier)
           /\ iter.raw_label_multiplier = NoQty
                => iter.quantity = RatMul(iter.parsed_qty, iter.sku_qty)

\* "Chicken (100g) x2" with an in_box count of 3: 100 * 2 = 200.
C12_Witness ==
    /\ ItemBuilt
    /\ iter.label = LChickenX2
    /\ iter.parsed_qty = RatOfInt(100)
    /\ iter.raw_label_multiplier = RatOfInt(2)
    /\ iter.sku_qty = RatOfInt(3)
    /\ iter.quantity = RatOfInt(200)

\* C13: an item whose label gives no amount and that has a SKU count or a
\* label multiplier gets a quantity, and the quantity is at least 1.
C13_AssumedBaseAtLeastOne ==
    (/\ ItemBuilt
     /\ iter.parsed_qty = NoQty
     /\ (iter.sku_qty # NoQty \/ iter.raw_label_multiplier # NoQty))
        => /\ iter.quantity # NoQty
           /\ ~RatLess(iter.quantity, RatOfInt(1))

\* The units share a remote id, or are both absent.
SameUnit(ua, ub) ==
    \/ ua = Absent /\ ub = Absent
    \/ ua # Absent /\ ub # Absent /\ ua.id # 0 /\ ua.id = ub.id

\* The sum of two quantities, an absent one adding nothing.
QtySum(qa, qb) ==
    IF qb = NoQty THEN qa ELSE IF qa = NoQty THEN qb ELSE RatAdd(qa, qb)

\* The entries of the output that have the key and the unit of the item the
\* step has worked on.
EntriesOfItem ==
    {k \in DOMAIN recipe_ingredients :
        /\ recipe_ingredients[k].key = iter'.key
        /\ SameUnit(recipe_ingredients[k].unit, iter'.unit)}

\* A step of the builder on an item with a name: an item whose key and unit
\* an entry has is added to that entry (the quantities summed, the text and
\* the place of the entry kept, every other entry untouched); any other item
\* becomes a new entry at the end.
MergeStep ==
    (item_idx' = item_idx + 1 /\ iter' # NoIter)
        => IF EntriesOfItem # {}
           THEN /\ Len(recipe_ingredients') = Len(recipe_ingredients)
                /\ \E k \in EntriesOfItem :
                      /\ recipe_ingredients'[k] =
                            [recipe_ingredients[k] EXCEPT
                                !.quantity = QtySum(@, iter'.quantity)]
                      /\ \A j \in DOMAIN recipe_ingredients \ {k} :
                            recipe_ingredients'[j] = recipe_ingredients[j]
           ELSE /\ Len(recipe_ingredients') = Len(recipe_ingredients) + 1
                /\ SubSeq(recipe_ingredients', 1, Len(recipe_ingredients))
                        = recipe_ingredients
                /\ LET last == recipe_ingredients'[Len(recipe_ingredients')]
                   IN /\ last.text = iter'.label
                      /\ last.key = iter'.key
                      /\ last.unit = iter'.unit
                      /\ last.quantity = iter'.quantity

\* The output holds one entry for a key and a unit.
SingleEntries ==
    \A j, k \in DOMAIN recipe_ingredients :
        (/\ recipe_ingredients[j].key = recipe_ingredients[k].key
         /\ SameUnit(recipe_ingredients[j].unit, recipe_ingredients[k].unit))
            => j = k

\* C14: the items of a document that have the same food key and units of
\* the same remote id (or no unit) are one entry of the output, whose
\* quantity is the sum of theirs and whose text is the first item's; the
\* entries stand in the order of the first items.
C14_MergeSumsAndKeepsFirst == []SingleEntries /\ [][MergeStep]_vars

\* "100g flour" (3 in the box) and then "50 g flour": one entry, 350 gram,
\* with the text of the first.
C14_Witness ==
    /\ ItemBuilt
    /\ iter.merged
    /\ iter.label = LFlour50
    /\ Len(recipe_ingredients) = 1
    /\ recipe_ingredients[1].text = LFlour100
    /\ recipe_ingredients[1].quantity = RatOfInt(350)
    /\ recipe_ingredients[1].unit.id = 3

\* The units have the same value, compared as keys, in one of the fields.
ShareValue(ua, ub) ==
    \E f \in UnitFields :
        unit_key(ua[f]) # None /\ unit_key(ua[f]) = unit_key(ub[f])

\* C15: two units are compatible exactly when both are absent, or both have
\* an id and the ids are equal, or both are present without an id and share
\* a value in a field; an absent and a present unit are not compatible; the
\* answer is the same with the units exchanged.
C15_UnitCompatibility ==
    (mpc = "compare" /\ compatible # "none")
        => /\ compatible = "True"
                <=> \/ unit_a = Absent /\ unit_b = Absent
                    \/ /\ unit_a # Absent /\ unit_b # Absent
                       /\ unit_a.id # 0 /\ unit_b.id # 0
                       /\ unit_a.id = unit_b.id
                    \/ /\ unit_a # Absent /\ unit_b # Absent
                       /\ unit_a.id = 0 /\ unit_b.id = 0
                       /\ ShareValue(unit_a, unit_b)
           /\ (unit_a = Absent) # (unit_b = Absent) => compatible = "False"
           /\ compatible = bool_name(units_compatible(unit_b, unit_a))

\* Two different units without an id that have the same name as keys.
C15_Witness ==
    /\ mpc = "compare"
    /\ compatible = "True"
    /\ unit_a # unit_b
    /\ unit_a.id = 0
    /\ unit_b.id = 0
    /\ unit_key(unit_a.name) = unit_key(unit_b.name)

\* The unit of every entry of the output is absent or an entity of the unit
\* cache that has an id.
UnitsResolved ==
    \A k \in DOMAIN recipe_ingredients :
        \/ recipe_ingredients[k].unit = Absent
        \/ /\ recipe_ingredients[k].unit.id # 0
           /\ \E key \in DOMAIN cache.units :
                 cache.units[key] = recipe_ingredients[k].unit

\* C16: every entry of the output has a quantity that is absent or not
\* negative, and a unit that is absent or an entity of the unit cache that has
\* an id.
C16_QuantityAndUnitValid ==
    mpc = "build"
        => /\ \A k \in DOMAIN recipe_ingredients :
                 \/ recipe_ingredients[k].quantity = NoQty
                 \/ recipe_ingredients[k].quantity.n >= 0
           /\ UnitsResolved

\* C19: for the label "1/2 onion", a fraction and then a word that is no
\* unit, the parser returns the value of the fraction, 1/2, and no unit: the
\* stages after the first token leave the amount as the first token gave it.
C19_FractionBeforeWord ==
    (ItemBuilt /\ iter.label = LHalfOnion)
        => /\ after_first(LHalfOnion).qty = Rat(1, 2)
           /\ iter.parsed_qty = after_first(LHalfOnion).qty
           /\ iter.unit = Absent

\* C20: for the label "1/0 onion", a fraction with the denominator zero, the
\* parser returns no quantity.
C20_ZeroDenominatorNoQuantity ==
    (ItemBuilt /\ iter.label = LZeroDenom) => iter.parsed_qty = NoQty

\* The pool threads.
PoolThreads == 1..MaxWorkers

\* A pool thread keeps the session it has for as long as the call lasts.
SessionKept ==
    \A t \in PoolThreads :
        (thread_local[t] # NoSession /\ thread_local'[t] # NoSession)
            => thread_local'[t] = thread_local[t]

\* While a pool thread works on a document its remote calls go through the
\* session the factory has built for this thread in this call, which is not
\* the session of the caller; two pool threads never have the same session;
\* the main thread works with the session of the caller.
OwnSessions ==
    /\ \A t \in PoolThreads :
          th[t].pc # "idle"
              => /\ th[t].session = factory_session(attempt, t)
                 /\ th[t].session = thread_local[t]
                 /\ th[t].session \notin {NoSession, CallerSession}
    /\ \A t1, t2 \in PoolThreads :
          (t1 # t2 /\ thread_local[t1] # NoSession)
              => thread_local[t1] # thread_local[t2]
    /\ th[0].session \in {NoSession, CallerSession}

\* C17: in pooled mode every worker thread uses a session of its own, built
\* by the session factory for that thread, and no session (the caller's
\* included) is used by two worker threads.
C17_OwnSessionPerWorker == []OwnSessions /\ [][SessionKept]_vars

\* Both pool threads at work in the first retry pass, each with the session
\* the factory built for it in that pass.
C17_Witness ==
    /\ mpc = "pool"
    /\ attempt = 1
    /\ th[1].pc # "idle"
    /\ th[2].pc # "idle"
    /\ th[1].session = factory_session(1, 1)
    /\ th[2].session = factory_session(1, 2)

\* The step of a thread whose update_recipe succeeds.
Updated(t) ==
    /\ th[t].pc = "update"
    /\ th'[t].pc \in {"image", "asset_check", "return"}

\* An update_recipe that succeeds for a document without categories leaves
\* the categories of the recipe as they were, and one for a document without
\* ingredients leaves its ingredient list as it was.
ListsKept ==
    \A t \in Threads :
        Updated(t) =>
            LET d == th[t].path
                slug == slug_of(d)
            IN /\ gather_category_titles(entry(d)) = <<>>
                    => recipes'[slug].recipeCategory = recipes[slug].recipeCategory
               /\ ~has_ingredients(d)
                    => recipes'[slug].recipeIngredient
                           = recipes[slug].recipeIngredient

\* No document is in the stage of resolving categories or ingredients it
\* does not have, so none fails there.
NothingToResolve ==
    \A t \in Threads :
        th[t].pc # "idle" =>
            /\ th[t].stage = "resolve categories"
                   => gather_category_titles(entry(th[t].path)) # <<>>
            /\ th[t].stage = "resolve ingredients"
                   => has_ingredients(th[t].path)

\* C18: a document without categories, or without ingredients, is processed
\* with that field not provided: it never fails resolving the field, and the
\* record submitted keeps the categories / the ingredient list the recipe
\* had instead of overwriting them with an empty list.
C18_MissingListsKept == []NothingToResolve /\ [][ListsKept]_vars

\* The fifth document of the second directory (no categories, no items) has
\* been imported into the recipe "d", which still has its category and its
\* ingredient.
C18_Witness ==
    /\ batch = 2
    /\ lastResult[5] = "ok"
    /\ recipes[<<"d">>].recipeCategory = << <<"c">> >>
    /\ recipes[<<"d">>].recipeIngredient = << <<"p">> >>

\* "Chopped tomatoes (200g)"
ChoppedTomatoesSized ==
    <<"C", "h", "o", "p", "p", "e", "d", " ", "t", "o", "m", "a", "t", "o", "e",
      "s", " ", "(", "2", "0", "0", "g", ")">>

\* C21: the food name of the label "(200g) tin chopped tomatoes", which has
\* a tin word and a size parenthetical, is the bare food name followed by the
\* size parenthetical: "Chopped tomatoes (200g)".
C21_TinNameKeepsSize ==
    (ItemBuilt /\ iter.label = LTinTomatoes) => iter.name = ChoppedTomatoesSized

\* The steps of ensure_* and of the reload it starts.
ResolvePcs ==
    {"lookup", "post", "insert", "load_fetch", "load_clear", "load_update",
     "relookup"}

\* The number of names a document resolves before those of a kind.
NamesBefore(d, kind) ==
    CASE kind = "categories" -> 0
      [] kind = "foods" -> Len(doc_names(d, "categories"))
      [] kind = "tags" ->
            Len(doc_names(d, "categories")) + Len(doc_names(d, "foods"))

\* How far the attempt of a thread is: 0 while the file is parsed, k while the
\* k-th name of the document is resolved (the warnings of the SKUs without
\* ingredient come before the first food), and one more than the number of
\* names from the fetch of the recipe on.
Progress(r) ==
    IF r.pc = "read" THEN 0
    ELSE IF r.pc \in ResolvePcs THEN NamesBefore(r.path, r.kind) + r.i
    ELSE IF r.pc \in {"warn", "warn_append"} THEN NamesBefore(r.path, "foods")
    ELSE NamesBefore(r.path, "tags") + Len(doc_names(r.path, "tags")) + 1

\* A step of an attempt that goes on: it stays where it is or moves to the
\* next name, or after the last name to the submission; it leaves a name only
\* when ensure_* has returned an entity for it.
StageOrder ==
    \A t \in Threads :
        (th[t].path # 0 /\ th'[t].path = th[t].path /\ th'[t] # th[t]) =>
            /\ Progress(th'[t]) \in {Progress(th[t]), Progress(th[t]) + 1}
            /\ (th[t].pc \in ResolvePcs /\ Progress(th'[t]) # Progress(th[t]))
                  => /\ th[t].pc \in {"lookup", "insert", "relookup"}
                     /\ th[t].kind = "foods"
                           => food_key(cur_name(t)) \in DOMAIN returned'

\* A step that ends an attempt: the thread issues nothing more for the
\* document, which is Done when the step is the return after the submission
\* and Failed otherwise.
EndsDoneOrFailed ==
    \A t \in Threads :
        (th[t].path # 0 /\ th'[t].path # th[t].path) =>
            /\ th'[t].pc = "idle"
            /\ lastResult'[th[t].path]
                  = IF th[t].pc = "return" THEN "ok" ELSE "fail"

\* C22: an attempt on a document goes through parsing, resolving and
\* submitting in this order: the requests of the submission are issued only
\* after every category, ingredient and tag of the document has been resolved,
\* a failure ends the attempt at once, and the attempt ends Done or Failed.
C22_StageOrder == [][StageOrder /\ EndsDoneOrFailed]_vars

\* ------------------------------------------------------------------- C23
\* The keys an ingredient is known by: its code and its uid.
ItemKeys(itm) == {code_key(value) : value \in {itm.code, itm.uid} \ {None}}

\* The SKU matches no ingredient of the entry, by its code or by its id.
Unmatched(sku) ==
    \A i \in DOMAIN all_items :
        /\ code_key(sku.code) \notin ItemKeys(all_items[i])
        /\ code_key(sku.id) \notin ItemKeys(all_items[i])

\* The SKUs the loop has passed that match no ingredient.
UnmatchedPassed == {k \in 1..sku_idx : Unmatched(portion_skus[k])}

\* A step of the loop over the SKUs on a SKU that matches no ingredient: one
\* warning is added, which names the code of the SKU; no item is added to
\* ordered_items and none to the output; the loop goes on with the next SKU
\* or, after the last, the items are built.
SkuDropped ==
    (/\ mpc = "skus"
     /\ sku_idx' = sku_idx + 1
     /\ Unmatched(portion_skus[sku_idx + 1]))
        => /\ warnings' =
                 Append(warnings,
                        SkuWarning(code_key(portion_skus[sku_idx + 1].code)))
           /\ ordered_items' = ordered_items
           /\ recipe_ingredients' = recipe_ingredients
           /\ mpc' = IF sku_idx' < Len(portion_skus) THEN "skus" ELSE "build"

\* Of the SKUs passed, those that match no ingredient have a warning each and
\* the others an item each; every SKU is passed before the items are built,
\* and the output holds at most one ingredient for each item.
SkusAccounted ==
    all_items # <<>> =>
        /\ sku_idx <= Len(portion_skus)
        /\ Len(SelectSeq(warnings, LAMBDA w : w.about = "sku"))
               = Cardinality(UnmatchedPassed)
        /\ portion_skus # <<>> =>
               Len(ordered_items) + Cardinality(UnmatchedPassed) = sku_idx
        /\ mpc = "build" => sku_idx = Len(portion_skus)
        /\ Len(recipe_ingredients) <= Len(ordered_items)

\* C23: a SKU of the portion size that matches no ingredient by code or id is
\* dropped with exactly one warning and without an ingredient in the output;
\* the build goes on with the remaining SKUs.
C23_UnmatchedSkuDropped == []SkusAccounted /\ [][SkuDropped]_vars

\* The build is over for two SKUs, the first of which matched no ingredient:
\* there is one warning, for the first, and one ingredient, for the second.
C23_Witness ==
    /\ mpc = "build"
    /\ Len(portion_skus) = 2
    /\ Unmatched(portion_skus[1])
    /\ ~Unmatched(portion_skus[2])
    /\ item_idx = 1
    /\ Len(ordered_items) = 1
    /\ Len(recipe_ingredients) = 1
    /\ warnings = <<SkuWarning(code_key(portion_skus[1].code))>>

\* ------------------------------------------------------------------- C24
\* The positions of a thread at the fetch, create and update requests for
\* the recipe.
RecipePcs == {"fetch", "create", "fetch2", "update"}

\* The message the step of a thread ends its attempt with.
EndMessage(t) ==
    IF t = 0 THEN errors_local'[Len(errors_local')] ELSE fut'[th[t].idx].err

\* The messages of a request for the recipe that was answered with a status
\* of the set.
StatusMessages(codes) ==
    {unexpected_response(code) : code \in codes}
        \cup {failed_to_create_recipe(code) : code \in codes}
        \cup {failed_to_update_recipe(code) : code \in codes}

\* A step of a thread at a request for the recipe: the attempt goes on only
\* after a status 200, 201 or 204, and it never fails for such a status.
StatusDecides ==
    \A t \in Threads :
        (th[t].pc \in RecipePcs /\ th'[t] # th[t]) =>
            IF th'[t].path = th[t].path
            THEN th'[t].resp \in {200, 201, 204}
            ELSE EndMessage(t).text \notin StatusMessages({200, 201, 204})

\* C24: for the fetch, the placeholder create and the update of the recipe a
\* response status of 200, 201 or 204 is a success, and every other status
\* fails the document.
C24_StatusDecides == [][StatusDecides]_vars

\* ------------------------------------------------------------------- C25
\* A step of a thread that issues the create request of ensure_*: no create
\* has been requested before for the kind and the key of the name.
PostOnce ==
    \A t \in Threads :
        (th[t].pc = "post" /\ th'[t] # th[t]) =>
            <<th[t].kind, name_key(th[t].kind, cur_name(t))>> \notin posted

\* C25: in a run at most one create request is issued for a normalized food,
\* category or tag key, whichever worker issues it.
C25_OneCreatePerKey == [][PostOnce]_vars

\* ------------------------------------------------------------------- C26
\* C26: a key that maps to an entity in a cache stays in the cache for the
\* rest of the run: outside the locked regions every key a cache has held at
\* the end of a locked region is a key of the cache.  A reload of one worker
\* takes no entry out that another worker has entered after a create while
\* the pages of the reload were fetched.
C26_CacheOnlyGrows ==
    lock = NoThread => \A kind \in Kinds : held[kind] \subseteq DOMAIN cache[kind]

\* ------------------------------------------------------------------- C27
\* A step of a thread in the page loop of a reload.
ReloadStep(t) ==
    /\ mpc # "preload"
    /\ th[t].pc = "load_fetch"
    /\ th'[t] # th[t]

\* The page loop of a reload leaves the caches and the lock alone.  A step of
\* it that ends the attempt (a page was answered with another status than
\* 200) fails the document of the thread with a message of the stage, and
\* nothing else: the other threads, the results of the other documents and
\* the run go on as they were.
ReloadFailure ==
    \A t \in Threads :
        ReloadStep(t) =>
            /\ cache' = cache
            /\ lock' = lock
            /\ th'[t].path # th[t].path =>
                  /\ th'[t].pc = "idle"
                  /\ lastResult' = [lastResult EXCEPT ![th[t].path] = "fail"]
                  /\ EndMessage(t).path = th[t].path
                  /\ EndMessage(t).stage = th[t].stage
                  /\ EndMessage(t).text = "unexpected response"
                  /\ \A u \in Threads \ {t} : th'[u] = th[u]
                  /\ mpc' = mpc

\* C27: a reload after a create conflict that is answered with another status
\* than 200 on a page leaves the cache as it was, and the error is the failure
\* of the document of the thread only.
C27_FailedReloadKeepsCache == [][ReloadFailure]_vars

\* A document has failed in the resolution of its ingredients for a page of
\* a reload, the food cache still holds the preloaded keys, and the run goes
\* on.
C27_Witness ==
    /\ \E m \in Messages :
          m.text = "unexpected response" /\ m.stage = "resolve ingredients"
    /\ DOMAIN cache.foods # {}
    /\ held.foods \subseteq DOMAIN cache.foods
    /\ mpc \notin {"aborted", "crashed"}

\* ---------------------------------------------------------------- C28
\* The runs of the pool in which one remote request at most goes wrong.
LiveInit == InitWith({MaxWorkers}, {MaxFaults - 1})

\* Every thread that can take a step takes one in the end: the threads of the
\* pool and the main thread are scheduled by the interpreter and by the
\* operating system, and every remote call returns.
LiveSpec == LiveInit /\ [][Next]_vars /\ WF_vars(Next)

\* The thread is inside the with block of the lock, between two steps: the
\* only block of CACHE_LOCK that takes more than one step is the one of
\* load_existing_*, and no step inside it is a remote request.
InCacheLock(t) == th[t].pc = "load_update"

InWarningsLock(t) == th[t].pc = "warn_append"

LocksHeldBriefly ==
    \A t \in Threads :
        /\ lock = t => InCacheLock(t)
        /\ warnings_lock = t => InWarningsLock(t)
        /\ ~(lock = t /\ warnings_lock = t)

\* A thread that acquires one of the locks does not hold the other.
AcquiresOne ==
    \A t \in Threads :
        /\ (lock' = t /\ lock # t) => warnings_lock # t
        /\ (warnings_lock' = t /\ warnings_lock # t) => lock # t

PoolRunning == mpc \in {"pool", "pool_raised"}

\* The pass is over, by a return or by the exception of a worker, and every
\* worker has finished its document.
PoolEnded ==
    /\ mpc \in {"returned", "crashed"}
    /\ \A i \in DOMAIN fut : fut[i].st \in {"done", "raised"}
    /\ \A t \in 1..MaxWorkers : th[t].pc = "idle"

FailedNow(d) == lastResult[d] = "fail"

\* What the sequential loop returns for the outcomes of the pass: the paths
\* that failed, in the order of the input.
FailedInOrder == SelectSeq(paths, FailedNow)

PooledReturned == mpc = "returned" /\ fut # <<>>

\* C29: a pass returns what the sequential loop returns for the same
\* outcomes, in pooled mode too: the failed paths in the order of the input,
\* whatever order the workers completed in, and as i-th message the message
\* of the i-th failed path, which in pooled mode is the one its worker
\* returned.
C29_PooledAsSequential ==
    mpc = "returned" =>
        /\ failed = FailedInOrder
        /\ Len(errors_local) = Len(failed)
        /\ \A i \in DOMAIN failed : errors_local[i].path = failed[i]
        /\ fut # <<>> =>
              \A i \in DOMAIN failed :
                  \E j \in DOMAIN paths :
                      paths[j] = failed[i] /\ fut[j].err = errors_local[i]

\* A pooled pass has returned two failures whose workers completed in the
\* reverse of the input order.
C29_Witness ==
    /\ PooledReturned
    /\ Len(results) >= 2
    /\ results[1][3] # NoErr
    /\ results[2][3] # NoErr
    /\ results[1][1] > results[2][1]

\* ---------------------------------------------------------------- C30
\* The entries of the output that stand for a food key with a unit.
EntriesFor(key, unit) ==
    {k \in DOMAIN recipe_ingredients :
        /\ recipe_ingredients[k].key = key
        /\ units_compatible(recipe_ingredients[k].unit, unit)}

NoTwoAlike ==
    \A i, j \in DOMAIN recipe_ingredients :
        (i # j /\ recipe_ingredients[i].key = recipe_ingredients[j].key)
            => ~units_compatible(recipe_ingredients[i].unit,
                                 recipe_ingredients[j].unit)

\* C30: the output of build_recipe_ingredients never holds two entries with
\* the same food key and compatible units, and the food key and unit of every
\* item that has been processed are those of exactly one entry.
C30_OneEntryPerFoodAndUnit ==
    mpc = "build" =>
        /\ NoTwoAlike
        /\ iter # NoIter => Cardinality(EntriesFor(iter.key, iter.unit)) = 1

\* Every item has been processed, the last one was merged, and the output
\* holds two entries of one food key, with units that are not compatible.
C30_Witness ==
    /\ mpc = "build"
    /\ item_idx = Len(ordered_items)
    /\ iter # NoIter
    /\ iter.merged
    /\ Len(recipe_ingredients) = 2
    /\ recipe_ingredients[1].key = recipe_ingredients[2].key

====
